---- MODULE Spec2Model ----
(***************************************************************************)
(* EmoRadar: the intervention engine (src/intervention_engine.py), the     *)
(* session history (src/emotion_visualizer.py) and the emotion detector    *)
(* (src/emotion_detector.py).                                              *)
(*                                                                         *)
(* A Python dict is modelled as a function whose DOMAIN is the set of keys *)
(* that are present; an insertion-ordered dict whose order is observed     *)
(* (the strategies of one concern) is a sequence of <<key, value>> pairs.  *)
(* Scores are integers; an Optional value is a sequence of length 0 or 1.  *)
(* The Python type of each value of the score mapping is carried beside the *)
(* mapping: a bool is carried as the integer it is (True is 1, False is 0), *)
(* a str or None as the placeholder 0, which no rule reads.                 *)
(***************************************************************************)
EXTENDS Integers, Sequences, FiniteSets, Bags, TLC

VARIABLES
    intervention_strategies, \* self.intervention_strategies
    phase_modifiers,         \* self.phase_modifiers
    emotion_data,            \* argument of the call in progress
    learning_context,        \* argument of the call in progress (Optional)
    pc,                      \* position inside analyze_intervention_need
    primary_concern,         \* local of analyze_intervention_need
    urgency,                 \* local of analyze_intervention_need
    current_phase,           \* local of analyze_intervention_need
    candidate_type,          \* intervention_type of _generate_interventions before the catalog test
    interventions,           \* local of analyze_intervention_need
    timing,                  \* local of analyze_intervention_need
    result,                  \* the returned recommendation (Optional)
    exception,               \* the exception the call ended with, "None" without one
    call_log,                \* the private methods entered by the call, in order
    score_types,             \* type(v).__name__ of every value v of emotion_data
    suspended,               \* the frames of the calls of the threads that are not running
    history,                 \* the inputs and results of the calls that have returned
    random_source,           \* the source of draws the caller holds (Optional)
    aliased,                 \* the parts of the returned dict that are objects of the engine
    session_state,           \* st.session_state of emotion_visualizer.py
    readings_added,          \* every reading passed to add_emotion_reading, as stored, in order
    detect_pc,               \* position inside detect_emotions of emotion_detector.py
    response,                \* local of detect_emotions (unbound: << >>)
    content,                 \* local of detect_emotions (unbound: << >>)
    parsed,                  \* local emotion_data of detect_emotions (unbound: << >>)
    detect_exception,        \* the exception raised inside detect_emotions, "None" without one
    detect_result            \* the reading detect_emotions returned (Optional)

vars == <<intervention_strategies, phase_modifiers, emotion_data, learning_context,
          pc, primary_concern, urgency, current_phase, candidate_type,
          interventions, timing, result, exception, call_log,
          score_types, suspended, history, random_source, aliased,
          session_state, readings_added,
          detect_pc, response, content, parsed, detect_exception, detect_result>>

----------------------------------------------------------------------------
(* Bounds of the model *)

\* how far beyond the conventional scale the out-of-range scores lie
Margin == 1

\* the conventional scale of a score
ScaleMin == 0
ScaleMax == 10

\* the integer scores of the conventional scale
ScoreVals == ScaleMin .. ScaleMax

\* the out-of-range scores, below and above the scale
Lowest == ScaleMin - Margin
Highest == ScaleMax + Margin
ProbeVals == {Lowest, Highest}

\* every score value of the model
AllVals == Lowest .. Highest

\* the fields the caller may put into the score mapping
KeyFields == {"frustration", "confusion", "engagement", "confidence"}
OtherFields == {"excitement", "learning_readiness", "overall_wellbeing"}

----------------------------------------------------------------------------
(* Enumerations *)

IMMEDIATE == "immediate"
ADAPTIVE == "adaptive"
SUPPORTIVE == "supportive"
MOTIVATIONAL == "motivational"
COGNITIVE == "cognitive"

InterventionType == {IMMEDIATE, ADAPTIVE, SUPPORTIVE, MOTIVATIONAL, COGNITIVE}

INTRODUCTION == "introduction"
PRACTICE == "practice"
APPLICATION == "application"
ASSESSMENT == "assessment"
REVIEW == "review"

LearningPhase == {INTRODUCTION, PRACTICE, APPLICATION, ASSESSMENT, REVIEW}

----------------------------------------------------------------------------
(* Python helpers *)

\* (changed) the default is ignored: d.get(key) or 0
GetZero(d, key, default) == IF key \in DOMAIN d THEN d[key] ELSE 0

\* dict.get(key, default)
Get(d, key, default) == IF key \in DOMAIN d THEN d[key] ELSE default

\* keys of an insertion-ordered dict, in order: list(d.keys())
Keys(od) == [i \in 1..Len(od) |-> od[i][1]]

\* key in d, for an insertion-ordered dict
HasKey(od, key) == \E i \in 1..Len(od) : od[i][1] = key

\* d[key], for an insertion-ordered dict that has the key
Lookup(od, key) == od[CHOOSE i \in 1..Len(od) : od[i][1] = key][2]

\* (changed) the LAST element whose key is maximal
PyMaxLast(seq) ==
    seq[CHOOSE i \in 1..Len(seq) :
            /\ \A j \in 1..Len(seq) : seq[j][2] <= seq[i][2]
            /\ \A j \in (i + 1)..Len(seq) : seq[j][2] < seq[i][2]]

\* max(seq, key=lambda x: x[1]): the FIRST element whose key is maximal
PyMax(seq) ==
    seq[CHOOSE i \in 1..Len(seq) :
            /\ \A j \in 1..Len(seq) : seq[j][2] <= seq[i][2]
            /\ \A j \in 1..(i - 1) : seq[j][2] < seq[i][2]]

\* (changed) the positions are drawn independently: random.choices(population, k=k)
SampleWithReplacement(population, k) ==
    { [i \in 1..k |-> population[p[i]]] : p \in [1..k -> 1..Len(population)] }

\* random.sample(population, k): k distinct positions, in any order
Sample(population, k) ==
    { [i \in 1..k |-> population[p[i]]] :
        p \in { q \in [1..k -> 1..Len(population)] :
                    \A a, b \in 1..k : a # b => q[a] # q[b] } }

Min(a, b) == IF a < b THEN a ELSE b

\* str.title() of the enum values
Title(t) ==
    CASE t = IMMEDIATE -> "Immediate"
      [] t = ADAPTIVE -> "Adaptive"
      [] t = SUPPORTIVE -> "Supportive"
      [] t = MOTIVATIONAL -> "Motivational"
      [] t = COGNITIVE -> "Cognitive"

----------------------------------------------------------------------------
(* InterventionEngine.__init__: the two knowledge tables *)

\* self.intervention_strategies: concern -> ordered dict of type -> actions
StrategyCatalog ==
    [c \in {"high_frustration", "high_confusion", "low_engagement",
            "low_confidence", "optimal_state"} |->
        CASE c = "high_frustration" -> <<
                <<IMMEDIATE, <<
                    "Take a 5-minute mindful breathing break",
                    "Step away and do light physical activity",
                    "Switch to a completely different subject for 10 minutes",
                    "Talk through the problem out loud or with someone">>>>,
                <<ADAPTIVE, <<
                    "Break the current problem into smaller, manageable steps",
                    "Use visual aids or diagrams to represent the concept",
                    "Find real-world analogies that relate to your experience",
                    "Try working backwards from the solution">>>>,
                <<SUPPORTIVE, <<
                    "Access additional examples of similar problems",
                    "Watch explanatory videos on the topic",
                    "Join a study group or find a learning partner",
                    "Schedule time with a tutor or instructor">>>> >>
          [] c = "high_confusion" -> <<
                <<COGNITIVE, <<
                    "Create a concept map to organize related ideas",
                    "Write a summary of what you do understand so far",
                    "Identify specific points of confusion to focus on",
                    "Use the 'explain it to a 5-year-old' technique">>>>,
                <<ADAPTIVE, <<
                    "Return to prerequisite concepts and review",
                    "Approach the topic from a different angle or method",
                    "Use multiple learning modalities (visual, audio, kinesthetic)",
                    "Practice with easier examples before tackling hard ones">>>>,
                <<SUPPORTIVE, <<
                    "Seek clarification on confusing terminology",
                    "Find additional resources with different explanations",
                    "Ask specific questions rather than 'I don't get it'",
                    "Work with examples that build complexity gradually">>>> >>
          [] c = "low_engagement" -> <<
                <<MOTIVATIONAL, <<
                    "Connect the material to your personal interests or goals",
                    "Set small, achievable milestones with rewards",
                    "Find the 'why' behind what you're learning",
                    "Challenge yourself with a fun, related puzzle">>>>,
                <<ADAPTIVE, <<
                    "Switch to more interactive learning methods",
                    "Incorporate gamification or competition elements",
                    "Use multimedia content (videos, podcasts, apps)",
                    "Apply learning through hands-on projects">>>>,
                <<SUPPORTIVE, <<
                    "Study with peers or in a group setting",
                    "Change your learning environment for freshness",
                    "Set shorter study sessions with clear objectives",
                    "Track progress visually to see improvement">>>> >>
          [] c = "low_confidence" -> <<
                <<MOTIVATIONAL, <<
                    "Review recent successes and progress made",
                    "Start with easier problems to build momentum",
                    "Focus on effort and improvement rather than perfection",
                    "Remind yourself that struggle is part of learning">>>>,
                <<SUPPORTIVE, <<
                    "Practice positive self-talk and growth mindset",
                    "Break challenges into very small, manageable pieces",
                    "Celebrate small wins and incremental progress",
                    "Seek encouragement from mentors or study partners">>>>,
                <<ADAPTIVE, <<
                    "Use scaffolding techniques with guided practice",
                    "Work with templates or structured approaches",
                    "Practice similar problems before trying new ones",
                    "Build confidence with mastery-based learning">>>> >>
          [] c = "optimal_state" -> <<
                <<ADAPTIVE, <<
                    "Increase challenge level to maintain optimal difficulty",
                    "Explore advanced applications of current concepts",
                    "Teach the concept to someone else to deepen understanding",
                    "Connect current learning to broader knowledge network">>>>,
                <<SUPPORTIVE, <<
                    "Document insights and breakthrough moments",
                    "Apply learning to creative or novel problems",
                    "Explore related topics that spark curiosity",
                    "Prepare to help others who might be struggling">>>> >>]

\* self.phase_modifiers
PhaseModifiers ==
    [p \in {INTRODUCTION, PRACTICE, APPLICATION, ASSESSMENT} |->
        CASE p = INTRODUCTION -> [focus |-> "building foundation",
                                  patience_level |-> "high",
                                  complexity_reduction |-> "maximum"]
          [] p = PRACTICE -> [focus |-> "skill development",
                              patience_level |-> "medium",
                              complexity_reduction |-> "moderate"]
          [] p = APPLICATION -> [focus |-> "real-world connection",
                                 patience_level |-> "medium",
                                 complexity_reduction |-> "minimal"]
          [] p = ASSESSMENT -> [focus |-> "performance optimization",
                                patience_level |-> "low",
                                complexity_reduction |-> "none"]]

----------------------------------------------------------------------------
(* InterventionEngine._identify_primary_concern *)

\* (changed) the engagement test reads a default that passes it
ConcernKeyErrorLowDefault(data) ==
    \/ Get(data, "frustration", 5) > 7 /\ "frustration" \notin DOMAIN data
    \/ Get(data, "confusion", 5) > 7 /\ "confusion" \notin DOMAIN data
    \/ Get(data, "engagement", 3) < 4 /\ "engagement" \notin DOMAIN data
    \/ Get(data, "confidence", 5) < 4 /\ "confidence" \notin DOMAIN data

\* a test that passes on its default makes the subscript that follows raise KeyError
ConcernKeyError(data) ==
    \/ Get(data, "frustration", 5) > 7 /\ "frustration" \notin DOMAIN data
    \/ Get(data, "confusion", 5) > 7 /\ "confusion" \notin DOMAIN data
    \/ Get(data, "engagement", 5) < 4 /\ "engagement" \notin DOMAIN data
    \/ Get(data, "confidence", 5) < 4 /\ "confidence" \notin DOMAIN data

\* (changed) the confusion test uses the bar 9
ConcernListConfusionBar(data) ==
    (IF Get(data, "frustration", 5) > 7
        THEN << <<"high_frustration", data["frustration"]>> >> ELSE << >>)
    \o (IF Get(data, "confusion", 5) > 9
        THEN << <<"high_confusion", data["confusion"]>> >> ELSE << >>)
    \o (IF Get(data, "engagement", 5) < 4
        THEN << <<"low_engagement", 10 - data["engagement"]>> >> ELSE << >>)
    \o (IF Get(data, "confidence", 5) < 4
        THEN << <<"low_confidence", 10 - data["confidence"]>> >> ELSE << >>)

\* (changed) the frustration test uses the critical threshold 8
ConcernListHighBar(data) ==
    (IF Get(data, "frustration", 5) > 8
        THEN << <<"high_frustration", data["frustration"]>> >> ELSE << >>)
    \o (IF Get(data, "confusion", 5) > 7
        THEN << <<"high_confusion", data["confusion"]>> >> ELSE << >>)
    \o (IF Get(data, "engagement", 5) < 4
        THEN << <<"low_engagement", 10 - data["engagement"]>> >> ELSE << >>)
    \o (IF Get(data, "confidence", 5) < 4
        THEN << <<"low_confidence", 10 - data["confidence"]>> >> ELSE << >>)

\* the Python types a score can have: numbers, and the non-numeric ones
NumberTypes == {"int"}
ScoreTypes == {"int", "bool", "str", "NoneType"}

\* a str or None compared with an int raises TypeError; a bool is an int. All four
\* tests are evaluated, so any such value of a graded field raises
ConcernTypeError(data, types) ==
    \E field \in {"frustration", "confusion", "engagement", "confidence"} :
        field \in DOMAIN data /\ types[field] \in {"str", "NoneType"}

\* the list `concerns` of (name, weight) pairs, in the order of the four tests
ConcernList(data) ==
    (IF Get(data, "frustration", 5) > 7
        THEN << <<"high_frustration", data["frustration"]>> >> ELSE << >>)
    \o (IF Get(data, "confusion", 5) > 7
        THEN << <<"high_confusion", data["confusion"]>> >> ELSE << >>)
    \o (IF Get(data, "engagement", 5) < 4
        THEN << <<"low_engagement", 10 - data["engagement"]>> >> ELSE << >>)
    \o (IF Get(data, "confidence", 5) < 4
        THEN << <<"low_confidence", 10 - data["confidence"]>> >> ELSE << >>)

\* (changed) the optimal-state test admits engagement 7
identify_primary_concern_WideOptimal(data) ==
    IF ConcernList(data) # << >>
    THEN PyMax(ConcernList(data))[1]
    ELSE IF /\ Get(data, "engagement", 5) >= 7
            /\ Get(data, "confidence", 5) > 6
            /\ Get(data, "frustration", 5) < 4
         THEN "optimal_state"
         ELSE "neutral_state"

identify_primary_concern(data) ==
    IF ConcernList(data) # << >>
    THEN PyMax(ConcernList(data))[1]
    ELSE IF /\ Get(data, "engagement", 5) > 7
            /\ Get(data, "confidence", 5) > 6
            /\ Get(data, "frustration", 5) < 4
         THEN "optimal_state"
         ELSE "neutral_state"

----------------------------------------------------------------------------
(* InterventionEngine._calculate_intervention_urgency *)

\* (changed) the medium rung compares engagement the wrong way round
calculate_intervention_urgency_EngagementFlipped(data) ==
    IF \/ Get(data, "frustration", 5) > 8
       \/ Get(data, "confusion", 5) > 8
       \/ Get(data, "engagement", 5) < 2
    THEN "critical"
    ELSE IF \/ Get(data, "frustration", 5) > 6
            \/ Get(data, "confusion", 5) > 6
            \/ Get(data, "engagement", 5) < 4
    THEN "high"
    ELSE IF \/ Get(data, "frustration", 5) > 4
            \/ Get(data, "confusion", 5) > 5
            \/ Get(data, "engagement", 5) > 6
            \/ Get(data, "confidence", 5) < 5
    THEN "medium"
    ELSE "low"

\* (changed) the high rung has no engagement test
calculate_intervention_urgency_NoEngagementHigh(data) ==
    IF \/ Get(data, "frustration", 5) > 8
       \/ Get(data, "confusion", 5) > 8
       \/ Get(data, "engagement", 5) < 2
    THEN "critical"
    ELSE IF \/ Get(data, "frustration", 5) > 6
            \/ Get(data, "confusion", 5) > 6
    THEN "high"
    ELSE IF \/ Get(data, "frustration", 5) > 4
            \/ Get(data, "confusion", 5) > 5
            \/ Get(data, "engagement", 5) < 6
            \/ Get(data, "confidence", 5) < 5
    THEN "medium"
    ELSE "low"

\* (changed) the high rung is tested before the critical rung
calculate_intervention_urgency_HighFirst(data) ==
    IF \/ Get(data, "frustration", 5) > 6
       \/ Get(data, "confusion", 5) > 6
       \/ Get(data, "engagement", 5) < 4
    THEN "high"
    ELSE IF \/ Get(data, "frustration", 5) > 8
            \/ Get(data, "confusion", 5) > 8
            \/ Get(data, "engagement", 5) < 2
    THEN "critical"
    ELSE IF \/ Get(data, "frustration", 5) > 4
            \/ Get(data, "confusion", 5) > 5
            \/ Get(data, "engagement", 5) < 6
            \/ Get(data, "confidence", 5) < 5
    THEN "medium"
    ELSE "low"

calculate_intervention_urgency(data) ==
    IF \/ Get(data, "frustration", 5) > 8
       \/ Get(data, "confusion", 5) > 8
       \/ Get(data, "engagement", 5) < 2
    THEN "critical"
    ELSE IF \/ Get(data, "frustration", 5) > 6
            \/ Get(data, "confusion", 5) > 6
            \/ Get(data, "engagement", 5) < 4
    THEN "high"
    ELSE IF \/ Get(data, "frustration", 5) > 4
            \/ Get(data, "confusion", 5) > 5
            \/ Get(data, "engagement", 5) < 6
            \/ Get(data, "confidence", 5) < 5
    THEN "medium"
    ELSE "low"

----------------------------------------------------------------------------
(* InterventionEngine._generate_intervention_explanation *)

generate_intervention_explanation(concern, intervention_type, urg) ==
    CASE concern = "high_frustration" ->
            "Student showing signs of learning frustration. " \o Title(intervention_type)
            \o " intervention needed to prevent negative learning spiral."
      [] concern = "high_confusion" ->
            "Cognitive confusion detected. " \o Title(intervention_type)
            \o " support will help clarify concepts and reduce cognitive load."
      [] concern = "low_engagement" ->
            "Engagement levels below optimal range. " \o Title(intervention_type)
            \o " strategies will help re-energize learning process."
      [] concern = "low_confidence" ->
            "Confidence indicators suggest student needs encouragement. "
            \o Title(intervention_type) \o " approach will build self-efficacy."
      [] concern = "optimal_state" ->
            "Student in excellent learning state. " \o Title(intervention_type)
            \o " enhancement will maximize learning potential."
      [] OTHER ->
            "Emotional state analysis suggests " \o intervention_type
            \o " intervention would be beneficial."

(* InterventionEngine._define_success_indicators *)

define_success_indicators(concern) ==
    CASE concern = "high_frustration" -> <<
            "Decreased facial tension and more relaxed posture",
            "Renewed willingness to attempt problems",
            "Improved emotional regulation">>
      [] concern = "high_confusion" -> <<
            "Clearer understanding demonstrated through questions",
            "Improved accuracy on practice problems",
            "More confident body language">>
      [] concern = "low_engagement" -> <<
            "Increased attention and focus on materials",
            "Active participation in learning activities",
            "Positive emotional responses to content">>
      [] concern = "low_confidence" -> <<
            "Improved posture and self-assured behavior",
            "Willingness to attempt challenging problems",
            "Positive self-statements about ability">>
      [] OTHER -> <<"Improved overall emotional state", "Better learning engagement">>

(* InterventionEngine._calculate_intervention_timing: the timing_map rows *)

TimingMap(urg) ==
    CASE urg = "critical" -> [when |-> "immediately",
                              duration |-> "5-10 minutes",
                              frequency |-> "as needed"]
      [] urg = "high" -> [when |-> "within next 2-3 minutes",
                          duration |-> "3-5 minutes",
                          frequency |-> "monitor every 5 minutes"]
      [] urg = "low" -> [when |-> "end of current activity",
                         duration |-> "1-2 minutes",
                         frequency |-> "monitor every 15 minutes"]
      [] OTHER -> [when |-> "at next natural break",
                   duration |-> "2-3 minutes",
                   frequency |-> "check every 10 minutes"]

\* (changed) the row is chosen by the concern where the concern is high_frustration
calculate_intervention_timing_ByConcern(data, context) ==
    TimingMap(IF ConcernList(data) # << >> /\ PyMax(ConcernList(data))[1] = "high_frustration"
              THEN "critical"
              ELSE calculate_intervention_urgency(data))

\* the method re-grades the urgency from the scores and looks the row up
calculate_intervention_timing(data, context) ==
    TimingMap(calculate_intervention_urgency(data))

----------------------------------------------------------------------------
(* InterventionEngine._predict_intervention_outcome *)

\* (changed) the factors of adaptive and supportive are exchanged
improvement_factor_Exchanged(intervention_type) ==
    CASE intervention_type = IMMEDIATE -> 80
      [] intervention_type = ADAPTIVE -> 40
      [] intervention_type = SUPPORTIVE -> 60
      [] intervention_type = MOTIVATIONAL -> 70
      [] intervention_type = COGNITIVE -> 50
      [] OTHER -> 50

\* improvement_factors.get(intervention_type, 0.5), in hundredths
improvement_factor(intervention_type) ==
    CASE intervention_type = IMMEDIATE -> 80
      [] intervention_type = ADAPTIVE -> 60
      [] intervention_type = SUPPORTIVE -> 40
      [] intervention_type = MOTIVATIONAL -> 70
      [] intervention_type = COGNITIVE -> 50
      [] OTHER -> 50

\* f"{x * 100:.0f}%": the integer percentage, then the percent sign
Percent(hundredths) == ToString(hundredths) \o "%"

\* (changed) current_state is used: below 0 the confidence level is low
predict_intervention_outcome_ByWellbeing(data, ivs) ==
    [likelihood_of_success |-> Percent(improvement_factor(ivs.type)),
     expected_timeframe |-> "5-15 minutes",
     confidence_level |-> IF improvement_factor(ivs.type) > 50
                             /\ Get(data, "overall_wellbeing", 0) >= 0
                          THEN "moderate" ELSE "low"]

predict_intervention_outcome(data, ivs) ==
    [likelihood_of_success |-> Percent(improvement_factor(ivs.type)),
     expected_timeframe |-> "5-15 minutes",
     confidence_level |-> IF improvement_factor(ivs.type) > 50 THEN "moderate" ELSE "low"]

----------------------------------------------------------------------------
(* InterventionEngine._generate_interventions *)

\* (changed) the passive branch reports the type of the catalog's first entries
PassiveInterventionsAdaptive ==
    [type |-> ADAPTIVE,
     actions |-> <<"Continue monitoring student progress">>,
     explanation |-> "No specific intervention needed at this time",
     success_indicators |-> <<"Maintained engagement", "Steady progress">>]

\* the branch taken when the concern is not a key of the catalog
PassiveInterventions ==
    [type |-> SUPPORTIVE,
     actions |-> <<"Continue monitoring student progress">>,
     explanation |-> "No specific intervention needed at this time",
     success_indicators |-> <<"Maintained engagement", "Steady progress">>]

\* (changed) at urgency high the draw is between immediate and supportive
CandidateTypesHighSupportive(urg) ==
    CASE urg = "critical" -> {IMMEDIATE}
      [] urg = "high" -> {IMMEDIATE, SUPPORTIVE}
      [] urg = "medium" -> {ADAPTIVE, SUPPORTIVE}
      [] OTHER -> {SUPPORTIVE}

\* (changed) no draw is made: the first element of each list is taken
CandidateTypesNoDraw(urg) ==
    CASE urg = "critical" -> {IMMEDIATE}
      [] urg = "high" -> {IMMEDIATE}
      [] urg = "medium" -> {ADAPTIVE}
      [] OTHER -> {SUPPORTIVE}

\* the values random.choice can return for the urgency (one value when no draw is made)
CandidateTypes(urg) ==
    CASE urg = "critical" -> {IMMEDIATE}
      [] urg = "high" -> {IMMEDIATE, ADAPTIVE}
      [] urg = "medium" -> {ADAPTIVE, SUPPORTIVE}
      [] OTHER -> {SUPPORTIVE}

\* (changed) the fallback takes the last key: available_types[-1]
ResolveTypeLast(strategies, candidate) ==
    IF HasKey(strategies, candidate) THEN candidate
    ELSE Keys(strategies)[Len(strategies)]

\* the type after the catalog test: the candidate, or the first key of the concern's dict
ResolveType(strategies, candidate) ==
    IF HasKey(strategies, candidate) THEN candidate ELSE Keys(strategies)[1]

\* (changed) the indicators are looked up by the reported type, not by the concern:
\* self._define_success_indicators(intervention_type.value)
CatalogInterventions_IndicatorsByType(concern, urg, resolved, selected_actions) ==
    [type |-> resolved,
     actions |-> selected_actions,
     explanation |-> generate_intervention_explanation(concern, resolved, urg),
     success_indicators |-> define_success_indicators(resolved)]

\* the dict built on the catalog branch, for one outcome of the two random draws
CatalogInterventions(concern, urg, resolved, selected_actions) ==
    [type |-> resolved,
     actions |-> selected_actions,
     explanation |-> generate_intervention_explanation(concern, resolved, urg),
     success_indicators |-> define_success_indicators(concern)]

----------------------------------------------------------------------------
(* The inputs of a call *)

\* every mapping of a subset of `fields` to values of `vals`
Mappings(fields, vals) == UNION { [S -> vals] : S \in SUBSET fields }

\* learning_context: None, or a dict that may carry a phase
NoContext == << >>
Contexts ==
    {NoContext} \cup { <<d>> : d \in Mappings({"phase"}, LearningPhase) }

----------------------------------------------------------------------------
(* InterventionEngine.analyze_intervention_need, one action per statement *)

UnsetInterventions ==
    [type |-> "None", actions |-> << >>, explanation |-> "None",
     success_indicators |-> << >>]
UnsetTiming == [when |-> "None", duration |-> "None", frequency |-> "None"]

Locals == <<primary_concern, urgency, current_phase, candidate_type,
            interventions, timing>>
Engine == <<intervention_strategies, phase_modifiers>>
Arguments == <<emotion_data, learning_context, score_types>>
\* what lies outside the running call: the other threads' calls, the record of past
\* calls and what the caller holds. No parameter of __init__ or of
\* analyze_intervention_need takes a source of draws, and every list and dict of the
\* returned dict is built by the call, so no statement of the call writes these
Session == <<session_state, readings_added>>
Detector == <<detect_pc, response, content, parsed, detect_exception, detect_result>>
Caller == <<random_source, aliased, Session, Detector>>
Outside == <<suspended, history, Caller>>

UnsetLocals ==
    /\ primary_concern = "None"
    /\ urgency = "None"
    /\ current_phase = "None"
    /\ candidate_type = "None"
    /\ interventions = UnsetInterventions
    /\ timing = UnsetTiming

ResetLocals ==
    /\ primary_concern' = "None"
    /\ urgency' = "None"
    /\ current_phase' = "None"
    /\ candidate_type' = "None"
    /\ interventions' = UnsetInterventions
    /\ timing' = UnsetTiming

\* the types of a mapping whose values are all numbers
Numeric(data) == [k \in DOMAIN data |-> "int"]

\* the caller enters analyze_intervention_need(data, context); types[k] is the
\* Python type of data[k]
CallTyped(data, types, context) ==
    /\ pc = "idle"
    /\ emotion_data' = data
    /\ score_types' = types
    /\ learning_context' = context
    /\ ResetLocals
    /\ result' = << >>
    /\ exception' = "None"
    /\ call_log' = << >>
    /\ pc' = "concern"
    /\ UNCHANGED <<Engine, Outside>>

\* the call with a mapping of numbers
Call(data, context) == CallTyped(data, Numeric(data), context)

\* primary_concern = self._identify_primary_concern(emotion_data)
IdentifyPrimaryConcern ==
    /\ pc = "concern"
    /\ call_log' = Append(call_log, "_identify_primary_concern")
    /\ IF ConcernTypeError(emotion_data, score_types)
       THEN /\ exception' = "TypeError"
            /\ pc' = "raised"
            /\ UNCHANGED primary_concern
       ELSE IF ConcernKeyError(emotion_data)
       THEN /\ exception' = "KeyError"
            /\ pc' = "raised"
            /\ UNCHANGED primary_concern
       ELSE /\ primary_concern' = identify_primary_concern(emotion_data)
            /\ pc' = "urgency"
            /\ UNCHANGED exception
    /\ UNCHANGED <<Engine, Arguments, Outside, urgency, current_phase, candidate_type,
                   interventions, timing, result>>

\* urgency = self._calculate_intervention_urgency(emotion_data)
CalculateInterventionUrgency ==
    /\ pc = "urgency"
    /\ call_log' = Append(call_log, "_calculate_intervention_urgency")
    /\ urgency' = calculate_intervention_urgency(emotion_data)
    /\ pc' = "phase"
    /\ UNCHANGED <<Engine, Arguments, Outside, primary_concern, current_phase, candidate_type,
                   interventions, timing, result, exception>>

\* (changed) a context that is None or empty gives the first phase of the enum
phase_of_DefaultIntroduction(context) ==
    IF context # NoContext /\ DOMAIN context[1] # {}
    THEN Get(context[1], "phase", PRACTICE)
    ELSE INTRODUCTION

\* learning_context.get('phase', PRACTICE) if learning_context else PRACTICE
phase_of(context) ==
    IF context # NoContext /\ DOMAIN context[1] # {}
    THEN Get(context[1], "phase", PRACTICE)
    ELSE PRACTICE

GetLearningPhase ==
    /\ pc = "phase"
    /\ current_phase' = phase_of(learning_context)
    /\ pc' = "generate"
    /\ UNCHANGED <<Engine, Arguments, Outside, primary_concern, urgency, candidate_type,
                   interventions, timing, result, exception, call_log>>

\* (changed) the catalog's list is not copied and is shuffled in place:
\* actions = strategies[intervention_type]; random.shuffle(actions); actions[:2]
GenerateInterventions_InPlace ==
    /\ pc = "generate"
    /\ \/ /\ primary_concern \notin DOMAIN intervention_strategies
          /\ interventions' = PassiveInterventions
          /\ call_log' = Append(call_log, "_generate_interventions")
          /\ UNCHANGED <<candidate_type, intervention_strategies>>
       \/ /\ primary_concern \in DOMAIN intervention_strategies
          /\ \E candidate \in CandidateTypes(urgency) :
               LET strategies == intervention_strategies[primary_concern]
                   resolved == ResolveType(strategies, candidate)
                   actions == Lookup(strategies, resolved)
               IN \E shuffled \in Sample(actions, Len(actions)) :
                    /\ candidate_type' = candidate
                    /\ interventions' =
                         CatalogInterventions(primary_concern, urgency, resolved,
                                              SubSeq(shuffled, 1, Min(2, Len(shuffled))))
                    /\ intervention_strategies' =
                         [intervention_strategies EXCEPT ![primary_concern] =
                            [i \in 1..Len(strategies) |->
                                IF strategies[i][1] = resolved
                                THEN <<resolved, shuffled>> ELSE strategies[i]]]
          /\ call_log' = call_log \o <<"_generate_interventions",
                                       "_generate_intervention_explanation",
                                       "_define_success_indicators">>
    /\ pc' = "timing"
    /\ UNCHANGED <<phase_modifiers, Arguments, Outside, primary_concern, urgency,
                   current_phase, timing, result, exception>>

\* (changed) nothing is copied or sampled: the catalog's list is returned itself,
\* selected_actions = strategies[intervention_type]
GenerateInterventions_Shared ==
    /\ pc = "generate"
    /\ \/ /\ primary_concern \notin DOMAIN intervention_strategies
          /\ interventions' = PassiveInterventions
          /\ call_log' = Append(call_log, "_generate_interventions")
          /\ aliased' = {}
          /\ UNCHANGED candidate_type
       \/ /\ primary_concern \in DOMAIN intervention_strategies
          /\ \E candidate \in CandidateTypes(urgency) :
               LET strategies == intervention_strategies[primary_concern]
                   resolved == ResolveType(strategies, candidate)
               IN /\ candidate_type' = candidate
                  /\ interventions' =
                       CatalogInterventions(primary_concern, urgency, resolved,
                                            Lookup(strategies, resolved))
                  /\ aliased' = {[part |-> "recommended_actions",
                                  concern |-> primary_concern, type |-> resolved]}
          /\ call_log' = call_log \o <<"_generate_interventions",
                                       "_generate_intervention_explanation",
                                       "_define_success_indicators">>
    /\ pc' = "timing"
    /\ UNCHANGED <<Engine, Arguments, suspended, history, random_source, Session, Detector,
                   primary_concern, urgency, current_phase, timing, result, exception>>

\* interventions = self._generate_interventions(primary_concern, urgency, current_phase)
GenerateInterventions ==
    /\ pc = "generate"
    /\ \/ /\ primary_concern \notin DOMAIN intervention_strategies
          /\ interventions' = PassiveInterventions
          /\ call_log' = Append(call_log, "_generate_interventions")
          /\ UNCHANGED candidate_type
       \/ /\ primary_concern \in DOMAIN intervention_strategies
          /\ \E candidate \in CandidateTypes(urgency) :
               LET strategies == intervention_strategies[primary_concern]
                   resolved == ResolveType(strategies, candidate)
               IN \E selected \in Sample(Lookup(strategies, resolved),
                                         Min(2, Len(Lookup(strategies, resolved)))) :
                    /\ candidate_type' = candidate
                    /\ interventions' =
                         CatalogInterventions(primary_concern, urgency, resolved, selected)
          /\ call_log' = call_log \o <<"_generate_interventions",
                                       "_generate_intervention_explanation",
                                       "_define_success_indicators">>
    /\ pc' = "timing"
    /\ UNCHANGED <<Engine, Arguments, Outside, primary_concern, urgency, current_phase,
                   timing, result, exception>>

\* (changed) the row is kept on the engine and the row kept by the call before is
\* returned before it is refreshed
CalculateInterventionTiming_Stale ==
    /\ pc = "timing"
    /\ timing' = IF "timing" \in DOMAIN phase_modifiers
                 THEN phase_modifiers["timing"]
                 ELSE calculate_intervention_timing(emotion_data, learning_context)
    /\ phase_modifiers' =
         [k \in DOMAIN phase_modifiers \cup {"timing"} |->
            IF k = "timing"
            THEN calculate_intervention_timing(emotion_data, learning_context)
            ELSE phase_modifiers[k]]
    /\ call_log' = call_log \o <<"_calculate_intervention_timing",
                                 "_calculate_intervention_urgency">>
    /\ pc' = "return"
    /\ UNCHANGED <<intervention_strategies, Arguments, Outside, primary_concern, urgency,
                   current_phase, candidate_type, interventions, result, exception>>

\* timing = self._calculate_intervention_timing(emotion_data, learning_context)
CalculateInterventionTiming ==
    /\ pc = "timing"
    /\ timing' = calculate_intervention_timing(emotion_data, learning_context)
    /\ call_log' = call_log \o <<"_calculate_intervention_timing",
                                 "_calculate_intervention_urgency">>
    /\ pc' = "return"
    /\ UNCHANGED <<Engine, Arguments, Outside, primary_concern, urgency, current_phase,
                   candidate_type, interventions, result, exception>>

\* (changed) the outcome is predicted from the type drawn before the catalog test
Recommendation_CandidateOutcome ==
    [primary_concern |-> primary_concern,
     urgency_level |-> urgency,
     intervention_type |-> interventions.type,
     recommended_actions |-> interventions.actions,
     timing |-> timing,
     explanation |-> interventions.explanation,
     success_indicators |-> interventions.success_indicators,
     learning_phase |-> current_phase,
     predicted_outcome |->
        predict_intervention_outcome(emotion_data, [type |-> candidate_type])]

\* the dict literal of the return statement
Recommendation ==
    [primary_concern |-> primary_concern,
     urgency_level |-> urgency,
     intervention_type |-> interventions.type,
     recommended_actions |-> interventions.actions,
     timing |-> timing,
     explanation |-> interventions.explanation,
     success_indicators |-> interventions.success_indicators,
     learning_phase |-> current_phase,
     predicted_outcome |-> predict_intervention_outcome(emotion_data, interventions)]

Return ==
    /\ pc = "return"
    /\ result' = <<Recommendation>>
    /\ call_log' = Append(call_log, "_predict_intervention_outcome")
    /\ pc' = "done"
    /\ UNCHANGED <<Engine, Arguments, Outside, Locals, exception>>

\* the frame of a call is discarded, the engine stays
EndCall ==
    /\ emotion_data' = << >>
    /\ score_types' = << >>
    /\ learning_context' = NoContext
    /\ ResetLocals
    /\ result' = << >>
    /\ exception' = "None"
    /\ call_log' = << >>
    /\ pc' = "idle"
    /\ UNCHANGED Engine

\* the call has ended: its frame is gone
Finish ==
    /\ pc \in {"done", "raised"}
    /\ EndCall
    /\ UNCHANGED Outside

----------------------------------------------------------------------------
(* The engine serving one call after another *)

\* the score mappings the caller passes with no learning context: every subset of
\* the four graded fields, with every combination of values of the scale
CallScores == Mappings(KeyFields, ScoreVals)

\* the score mappings the caller passes with every learning context: every subset
\* of all seven fields, the graded ones at the out-of-range values
ProbeScores ==
    { d \in Mappings(KeyFields \cup OtherFields, ProbeVals) :
        \A k \in OtherFields \cap DOMAIN d : d[k] = Highest }

CallInputs ==
    (CallScores \X {NoContext}) \cup (ProbeScores \X Contexts)

\* a caller invokes analyze_intervention_need on the idle engine
AnalyzeInterventionNeed ==
    /\ pc = "idle"
    /\ \E input \in CallInputs : Call(input[1], input[2])

Init ==
    /\ intervention_strategies = StrategyCatalog
    /\ phase_modifiers = PhaseModifiers
    /\ emotion_data = << >>
    /\ learning_context = NoContext
    /\ pc = "idle"
    /\ UnsetLocals
    /\ result = << >>
    /\ exception = "None"
    /\ call_log = << >>
    /\ score_types = << >>
    /\ suspended = EmptyBag
    /\ history = {}
    /\ random_source = << >>
    /\ aliased = {}
    /\ session_state = << >>
    /\ readings_added = << >>
    /\ detect_pc = "idle"
    /\ response = << >>
    /\ content = << >>
    /\ parsed = << >>
    /\ detect_exception = "None"
    /\ detect_result = << >>

Next ==
    \/ AnalyzeInterventionNeed
    \/ IdentifyPrimaryConcern
    \/ CalculateInterventionUrgency
    \/ GetLearningPhase
    \/ GenerateInterventions
    \/ CalculateInterventionTiming
    \/ Return
    \/ Finish

Spec == Init /\ [][Next]_vars

----------------------------------------------------------------------------
(* The engine called on the inputs that the steps after the grading tell apart:  *)
(* strategy selection reads the concern and the urgency, the phase is read from  *)
(* the context, the outcome reads the type.                                      *)

\* a few score vectors that are graded to every pair of a concern and an urgency
\* that any mapping is graded to
GradeVals == {0, 3, 6, 7, 8, 9}
GradeVectors == [KeyFields -> GradeVals]

StrategyInputs ==
    (GradeVectors \X {NoContext}) \cup (ProbeScores \X Contexts)

StrategyCall ==
    /\ pc = "idle"
    /\ \E input \in StrategyInputs : Call(input[1], input[2])

StrategyNext ==
    \/ StrategyCall
    \/ IdentifyPrimaryConcern
    \/ CalculateInterventionUrgency
    \/ GetLearningPhase
    \/ GenerateInterventions
    \/ CalculateInterventionTiming
    \/ Return
    \/ Finish

StrategySpec == Init /\ [][StrategyNext]_vars

----------------------------------------------------------------------------
(* The engine called again and again by a caller that keeps what was returned *)

\* a mapping for each concern, at urgencies with and without a draw of the type
RepeatInputs ==
    { << >>,
      [frustration |-> 9],
      [confusion |-> 8],
      [engagement |-> 3],
      [confidence |-> 3],
      [frustration |-> 3, confusion |-> 3, engagement |-> 8, confidence |-> 7] }

RepeatCall ==
    /\ pc = "idle"
    /\ \E data \in RepeatInputs : Call(data, NoContext)

\* what the caller keeps of a returned call
Kept ==
    [emotion_data |-> emotion_data,
     primary_concern |-> result[1].primary_concern,
     urgency_level |-> result[1].urgency_level,
     timing |-> result[1].timing,
     intervention_type |-> result[1].intervention_type,
     predicted_outcome |-> result[1].predicted_outcome]

\* the call has returned: the caller keeps the result, the frame is gone
FinishKept ==
    /\ pc = "done"
    /\ history' = history \cup {Kept}
    /\ EndCall
    /\ UNCHANGED <<suspended, Caller>>

RepeatNext ==
    \/ RepeatCall
    \/ IdentifyPrimaryConcern
    \/ CalculateInterventionUrgency
    \/ GetLearningPhase
    \/ GenerateInterventions
    \/ CalculateInterventionTiming
    \/ Return
    \/ FinishKept

RepeatSpec == Init /\ [][RepeatNext]_vars

----------------------------------------------------------------------------
(* The engine called by a caller that holds a source of draws of its own, made   *)
(* to pin the outcome: random.Random(seed) or a stub. InterventionEngine() takes *)
(* no argument and analyze_intervention_need takes the scores and the context,   *)
(* so the source stays with the caller; the draws of the call are those of the   *)
(* module random.                                                                *)

\* a source is the sequence of draws it delivers: the position random.choice
\* picks, then the two positions random.sample picks
DrawSources == { <<1, 1, 2>>, <<2, 4, 3>> }

\* mappings graded to a catalog concern at an urgency where the type is drawn,
\* and the empty mapping
SeededInputs ==
    { << >>, [frustration |-> 8], [confidence |-> 3] }

\* the caller makes the source it wants the next calls to draw from
PrepareSource ==
    /\ pc = "idle"
    /\ \E s \in DrawSources : random_source' = <<s>>
    /\ UNCHANGED <<Engine, Arguments, Locals, pc, result, exception, call_log,
                   suspended, history, aliased, Session, Detector>>

SeededCall ==
    /\ pc = "idle"
    /\ random_source # << >>
    /\ \E data \in SeededInputs : Call(data, NoContext)

\* what the caller keeps of a returned call, with the source it held
KeptDraws ==
    [random_source |-> random_source,
     primary_concern |-> result[1].primary_concern,
     urgency_level |-> result[1].urgency_level,
     learning_phase |-> result[1].learning_phase,
     intervention_type |-> result[1].intervention_type,
     recommended_actions |-> result[1].recommended_actions]

\* the call has returned: the caller keeps the last result, the frame is gone
FinishSeeded ==
    /\ pc = "done"
    /\ history' = {KeptDraws}
    /\ EndCall
    /\ UNCHANGED <<suspended, Caller>>

SeededNext ==
    \/ PrepareSource
    \/ SeededCall
    \/ IdentifyPrimaryConcern
    \/ CalculateInterventionUrgency
    \/ GetLearningPhase
    \/ GenerateInterventions
    \/ CalculateInterventionTiming
    \/ Return
    \/ FinishSeeded

SeededSpec == Init /\ [][SeededNext]_vars

----------------------------------------------------------------------------
(* The engine called by a caller that changes what was returned. The lists and   *)
(* the timing dict of the returned dict are objects; a change made through one   *)
(* reference to an object is seen through every other. `aliased` names the parts *)
(* of the returned dict that are the same object as a list of the catalog: the   *)
(* actions are a new list made by random.sample, the success indicators a list   *)
(* of a dict literal evaluated in the call, the timing a dict of another, and    *)
(* the lists of the passive dict are literals too, so no statement adds to it.   *)

HeldInputs ==
    { << >>, [frustration |-> 9], [confidence |-> 3] }

HeldCall ==
    /\ pc = "idle"
    /\ \E data \in HeldInputs : Call(data, NoContext)

\* the parts of a recommendation that can be changed in place
MutableParts == {"recommended_actions", "success_indicators", "timing"}

\* what the caller can make of a part: list.clear(), list.append(x), list.reverse();
\* for the timing dict an item assignment
Changes(part, value) ==
    IF part = "timing"
    THEN { [value EXCEPT !.when = "never"] }
    ELSE { << >>, Append(value, "added by the caller"),
           [i \in 1..Len(value) |-> value[Len(value) + 1 - i]] }

\* the catalog after the object of the part was changed to `value`: a list of the
\* catalog that is this object has changed with it
CatalogAfter(part, value) ==
    [c \in DOMAIN intervention_strategies |->
        [i \in 1..Len(intervention_strategies[c]) |->
            IF [part |-> part, concern |-> c, type |-> intervention_strategies[c][i][1]]
                  \in aliased
            THEN <<intervention_strategies[c][i][1], value>>
            ELSE intervention_strategies[c][i]]]

\* the call has returned; the caller changes a part of the dict it got and holds
\* the changed dict; the frame is gone
FinishChanged ==
    /\ pc = "done"
    /\ \E part \in MutableParts :
       \E value \in Changes(part, result[1][part]) :
          /\ value # result[1][part]
          /\ history' = { [part |-> part,
                           recommendation |-> [result[1] EXCEPT ![part] = value]] }
          /\ intervention_strategies' = CatalogAfter(part, value)
    /\ emotion_data' = << >>
    /\ score_types' = << >>
    /\ learning_context' = NoContext
    /\ ResetLocals
    /\ result' = << >>
    /\ exception' = "None"
    /\ call_log' = << >>
    /\ pc' = "idle"
    /\ UNCHANGED <<phase_modifiers, suspended, Caller>>

HeldNext ==
    \/ HeldCall
    \/ IdentifyPrimaryConcern
    \/ CalculateInterventionUrgency
    \/ GetLearningPhase
    \/ GenerateInterventions
    \/ CalculateInterventionTiming
    \/ Return
    \/ Finish
    \/ FinishChanged

HeldSpec == Init /\ [][HeldNext]_vars

----------------------------------------------------------------------------
(* The engine called with values of any type in the score mapping *)

\* a value of a score field: its Python type and the integer it is carried as
TypedValues ==
    { [type |-> "int", value |-> 2], [type |-> "int", value |-> 9],
      [type |-> "bool", value |-> 0], [type |-> "bool", value |-> 1],
      [type |-> "str", value |-> 0], [type |-> "NoneType", value |-> 0] }

\* the fields given: two graded ones and one that no rule grades
TypedFields == {"frustration", "engagement", "overall_wellbeing"}

\* the mappings that hold at least one value that is not a number
TypedInputs ==
    { tv \in UNION { [S -> TypedValues] : S \in SUBSET TypedFields } :
        \E k \in DOMAIN tv : tv[k].type \notin NumberTypes }

TypedCall ==
    /\ pc = "idle"
    /\ \E tv \in TypedInputs :
          CallTyped([k \in DOMAIN tv |-> tv[k].value],
                    [k \in DOMAIN tv |-> tv[k].type], NoContext)

TypedNext ==
    \/ TypedCall
    \/ IdentifyPrimaryConcern
    \/ CalculateInterventionUrgency
    \/ GetLearningPhase
    \/ GenerateInterventions
    \/ CalculateInterventionTiming
    \/ Return
    \/ Finish

TypedSpec == Init /\ [][TypedNext]_vars

----------------------------------------------------------------------------
(* The engine called from several threads. The running thread's frame is in the  *)
(* variables of the call; the frames of the other threads are in `suspended`.    *)
(* The interpreter switches threads between the statements of                    *)
(* analyze_intervention_need; the private methods touch only their own locals    *)
(* and read the two tables, so a switch inside one of them is a switch before or *)
(* after it.                                                                     *)

\* the most threads that call the engine at once
MaxThreads == 2

ConcurrentInputs ==
    { << >>, [frustration |-> 9], [engagement |-> 3] }

\* the frame of the running thread
CurrentFrame ==
    [emotion_data |-> emotion_data, score_types |-> score_types,
     learning_context |-> learning_context, pc |-> pc,
     primary_concern |-> primary_concern, urgency |-> urgency,
     current_phase |-> current_phase, candidate_type |-> candidate_type,
     interventions |-> interventions, timing |-> timing,
     result |-> result, exception |-> exception, call_log |-> call_log]

\* the frame of a thread that is not in a call
IdleFrame ==
    [emotion_data |-> << >>, score_types |-> << >>,
     learning_context |-> NoContext, pc |-> "idle",
     primary_concern |-> "None", urgency |-> "None",
     current_phase |-> "None", candidate_type |-> "None",
     interventions |-> UnsetInterventions, timing |-> UnsetTiming,
     result |-> << >>, exception |-> "None", call_log |-> << >>]

\* the thread of frame f runs
Resume(f) ==
    /\ emotion_data' = f.emotion_data
    /\ score_types' = f.score_types
    /\ learning_context' = f.learning_context
    /\ pc' = f.pc
    /\ primary_concern' = f.primary_concern
    /\ urgency' = f.urgency
    /\ current_phase' = f.current_phase
    /\ candidate_type' = f.candidate_type
    /\ interventions' = f.interventions
    /\ timing' = f.timing
    /\ result' = f.result
    /\ exception' = f.exception
    /\ call_log' = f.call_log

\* one more thread starts and runs; the running one is suspended
StartThread ==
    /\ BagCardinality(suspended) < MaxThreads - 1
    /\ suspended' = suspended (+) SetToBag({CurrentFrame})
    /\ Resume(IdleFrame)
    /\ UNCHANGED <<Engine, history, Caller>>

\* (changed) urgency is kept on the engine (self.urgency): it is not part of the frame
Switch_SharedUrgency ==
    /\ \E f \in BagToSet(suspended) :
          /\ suspended' = (suspended (-) SetToBag({f})) (+) SetToBag({CurrentFrame})
          /\ Resume([f EXCEPT !.urgency = urgency])
    /\ UNCHANGED <<Engine, history, Caller>>

\* the interpreter suspends the running thread and resumes another
Switch ==
    /\ \E f \in BagToSet(suspended) :
          /\ suspended' = (suspended (-) SetToBag({f})) (+) SetToBag({CurrentFrame})
          /\ Resume(f)
    /\ UNCHANGED <<Engine, history, Caller>>

ConcurrentCall ==
    /\ pc = "idle"
    /\ \E data \in ConcurrentInputs : Call(data, NoContext)

ConcurrentNext ==
    \/ ConcurrentCall
    \/ IdentifyPrimaryConcern
    \/ CalculateInterventionUrgency
    \/ GetLearningPhase
    \/ GenerateInterventions
    \/ CalculateInterventionTiming
    \/ Return
    \/ Finish
    \/ StartThread
    \/ Switch

ConcurrentSpec == Init /\ [][ConcurrentNext]_vars

----------------------------------------------------------------------------
(* The session history of emotion_visualizer.py: initialize_emotion_session and  *)
(* add_emotion_reading on st.session_state, a mapping that is empty when the     *)
(* session begins. The engine is not involved.                                   *)

\* the variables of a call of the engine
EngineCall == <<Engine, Arguments, Locals, pc, result, exception, call_log>>

\* the most readings kept: the 20 of len(...) > 20 and of [-20:]
HistoryLimit == 20

\* the most readings added in a session, and the most of them that are distressed
MaxReadings == 22
MaxDistressed == 1

\* the readings passed to add_emotion_reading
CalmReading == [frustration |-> 2, engagement |-> 8]
DistressedReading == [frustration |-> 9, engagement |-> 2]

\* datetime.now(): the clock advances with every reading added
Now == Len(readings_added) + 1

\* seq[-n:], for n > 0: the last n elements, all of them when there are fewer
LastN(seq, n) == IF Len(seq) <= n THEN seq ELSE SubSeq(seq, Len(seq) - n + 1, Len(seq))

\* (changed) the history is cut to its oldest readings: emotion_history[:20]
TrimmedOldest(list) ==
    IF Len(list) > HistoryLimit THEN SubSeq(list, 1, HistoryLimit) ELSE list

\* the list after the test len(...) > 20
Trimmed(list) ==
    IF Len(list) > HistoryLimit THEN LastN(list, HistoryLimit) ELSE list

\* d = data.copy(); d['timestamp'] = t
WithTimestamp(data, t) ==
    [k \in DOMAIN data \cup {"timestamp"} |-> IF k = "timestamp" THEN t ELSE data[k]]

\* initialize_emotion_session(): each key is set only when it is absent
InitializeEmotionSession ==
    /\ session_state' =
         [k \in DOMAIN session_state \cup {"emotion_history", "session_start_time"} |->
            IF k \in DOMAIN session_state THEN session_state[k]
            ELSE IF k = "emotion_history" THEN << >> ELSE Now]
    /\ UNCHANGED <<EngineCall, suspended, history, random_source, aliased, readings_added,
                   Detector>>

\* add_emotion_reading(data): a copy of data with the timestamp is appended, then
\* the list is cut. Without the key emotion_history the append raises
\* AttributeError and nothing is changed
AddEmotionReading(data) ==
    /\ "emotion_history" \in DOMAIN session_state
    /\ LET emotion_data_with_time == WithTimestamp(data, Now)
       IN /\ session_state' =
                [session_state EXCEPT !["emotion_history"] =
                    Trimmed(Append(session_state["emotion_history"],
                                   emotion_data_with_time))]
          /\ readings_added' = Append(readings_added, emotion_data_with_time)
    /\ UNCHANGED <<EngineCall, suspended, history, random_source, aliased, Detector>>

\* how many of the readings added are distressed
Distressed ==
    Cardinality({ i \in 1..Len(readings_added) : readings_added[i]["frustration"] > 7 })

\* the application adds a reading
AddReading ==
    /\ Len(readings_added) < MaxReadings
    /\ \/ AddEmotionReading(CalmReading)
       \/ Distressed < MaxDistressed /\ AddEmotionReading(DistressedReading)

SessionNext ==
    \/ InitializeEmotionSession
    \/ AddReading

SessionSpec == Init /\ [][SessionNext]_vars

----------------------------------------------------------------------------
(* LearningEmotionDetector.detect_emotions (src/emotion_detector.py), one action *)
(* per statement of the try block and per except clause. The reply of the vision *)
(* model is outside the program: every outcome of self.model.chat is possible.   *)
(* A float is carried as the integer it equals (5.0 as 5) and a bool as the      *)
(* integer it is (False as 0, True as 1); overall_wellbeing, a quotient by 5.0,  *)
(* is carried in fifths.                                                         *)

\* exceptions self.model.chat can raise: one that is not a json.JSONDecodeError,
\* and one that is (the reply of the service is not JSON)
ChatErrors == {"ConnectionError", "JSONDecodeError"}

\* the fields of required_fields and their defaults
RequiredDefaults ==
    [frustration |-> 5, confusion |-> 5, engagement |-> 5, excitement |-> 5,
     confidence |-> 5, intervention_needed |-> 0,
     suggested_action |-> "Continue monitoring", emotional_state |-> "neutral",
     learning_readiness |-> 5]

\* the fields that the arithmetic and the comparisons read
ComputedFields == {"engagement", "confidence", "excitement", "frustration", "confusion"}

\* the JSON objects the model may answer with: any subset of four of the fields;
\* a score is a number, a string or null
ObjectFields == {"frustration", "confusion", "engagement", "intervention_needed"}
FieldValues(field) ==
    CASE field = "frustration" ->
            { [type |-> "int", value |-> 6], [type |-> "int", value |-> 8],
              [type |-> "str", value |-> 0] }
      [] field = "confusion" ->
            { [type |-> "int", value |-> 7], [type |-> "int", value |-> 9] }
      [] field = "engagement" ->
            { [type |-> "int", value |-> 2], [type |-> "int", value |-> 6],
              [type |-> "NoneType", value |-> 0] }
      [] field = "intervention_needed" ->
            { [type |-> "bool", value |-> 0], [type |-> "bool", value |-> 1] }

\* the values json.loads can return: an object, given by its values and their
\* types, or a value that is not an object
JsonObjects ==
    UNION { { [kind |-> "object",
               data |-> [k \in S |-> tv[k].value],
               types |-> [k \in S |-> tv[k].type]] :
                 tv \in { f \in [S -> UNION { FieldValues(k) : k \in S }] :
                            \A k \in S : f[k] \in FieldValues(k) } } :
            S \in SUBSET ObjectFields }
JsonArray == [kind |-> "array", data |-> << >>, types |-> << >>]

\* the text of a reply: text that is not JSON, or the JSON text of a value
Contents ==
    { [valid |-> FALSE, value |-> JsonArray] }
    \cup { [valid |-> TRUE, value |-> v] : v \in JsonObjects \cup {JsonArray} }

\* what self.model.chat returns: a reply with the text, or one without choices
Responses ==
    { [choices |-> << >>] }
    \cup { [choices |-> << [message |-> [content |-> c]] >>] : c \in Contents }

\* _validate_and_enhance_emotions raises TypeError on a value that is not a dict
\* (item assignment) and on a str or None among the fields it computes with
ValidateTypeError(v) ==
    \/ v.kind # "object"
    \/ \E k \in ComputedFields \cap DOMAIN v.data : v.types[k] \in {"str", "NoneType"}

\* emotion_data after the loop over required_fields
WithDefaults(data) ==
    [k \in DOMAIN data \cup DOMAIN RequiredDefaults |->
        IF k \in DOMAIN data THEN data[k] ELSE RequiredDefaults[k]]

\* _validate_and_enhance_emotions(emotion_data), for a dict of numbers
validate_and_enhance_emotions(data) ==
    LET d == WithDefaults(data)
        wellbeing == d["engagement"] + d["confidence"] + d["excitement"]
                       - d["frustration"] - d["confusion"]
        needed == d["frustration"] > 7 \/ d["confusion"] > 8 \/ d["engagement"] < 3
        priority == IF needed THEN "high"
                    ELSE IF d["frustration"] > 5 \/ d["confusion"] > 6 THEN "medium"
                    ELSE "low"
    IN [k \in DOMAIN d \cup {"overall_wellbeing", "intervention_priority"} |->
          CASE k = "overall_wellbeing" -> wellbeing
            [] k = "intervention_priority" -> priority
            [] k = "intervention_needed" /\ needed -> 1
            [] OTHER -> d[k]]

\* _get_fallback_emotions()
get_fallback_emotions ==
    [frustration |-> 5, confusion |-> 5, engagement |-> 5, excitement |-> 5,
     confidence |-> 5, intervention_needed |-> 0,
     suggested_action |-> "Unable to analyze - please ensure clear image",
     emotional_state |-> "unknown", learning_readiness |-> 5,
     overall_wellbeing |-> 0, intervention_priority |-> "low"]

NotDetector == <<EngineCall, suspended, history, random_source, aliased, Session>>

\* a caller enters detect_emotions(image_base64); the locals are unbound
DetectEmotions ==
    /\ detect_pc = "idle"
    /\ detect_pc' = "chat"
    /\ UNCHANGED <<response, content, parsed, detect_exception, detect_result, NotDetector>>

\* response = self.model.chat(messages=messages)
ModelChat ==
    /\ detect_pc = "chat"
    /\ \/ \E e \in ChatErrors :
             /\ detect_exception' = e
             /\ detect_pc' = "except"
             /\ UNCHANGED response
       \/ \E r \in Responses :
             /\ response' = <<r>>
             /\ detect_pc' = "content"
             /\ UNCHANGED detect_exception
    /\ UNCHANGED <<content, parsed, detect_result, NotDetector>>

\* content = response["choices"][0]["message"]["content"]
ExtractContent ==
    /\ detect_pc = "content"
    /\ IF response[1].choices = << >>
       THEN /\ detect_exception' = "IndexError"
            /\ detect_pc' = "except"
            /\ UNCHANGED content
       ELSE /\ content' = <<response[1].choices[1].message.content>>
            /\ detect_pc' = "loads"
            /\ UNCHANGED detect_exception
    /\ UNCHANGED <<response, parsed, detect_result, NotDetector>>

\* emotion_data = json.loads(content)
JsonLoads ==
    /\ detect_pc = "loads"
    /\ IF ~content[1].valid
       THEN /\ detect_exception' = "JSONDecodeError"
            /\ detect_pc' = "except"
            /\ UNCHANGED parsed
       ELSE /\ parsed' = <<content[1].value>>
            /\ detect_pc' = "validate"
            /\ UNCHANGED detect_exception
    /\ UNCHANGED <<response, content, detect_result, NotDetector>>

\* return self._validate_and_enhance_emotions(emotion_data)
ValidateAndEnhance ==
    /\ detect_pc = "validate"
    /\ IF ValidateTypeError(parsed[1])
       THEN /\ detect_exception' = "TypeError"
            /\ detect_pc' = "except"
            /\ UNCHANGED detect_result
       ELSE /\ detect_result' = <<validate_and_enhance_emotions(parsed[1].data)>>
            /\ detect_pc' = "done"
            /\ UNCHANGED detect_exception
    /\ UNCHANGED <<response, content, parsed, NotDetector>>

\* except json.JSONDecodeError: the handler prints content, then returns the
\* fallback; with content unbound the print raises UnboundLocalError, which no
\* clause of this try statement catches
ExceptJSONDecodeError ==
    /\ detect_pc = "except"
    /\ detect_exception = "JSONDecodeError"
    /\ IF content = << >>
       THEN /\ detect_exception' = "UnboundLocalError"
            /\ detect_pc' = "raised"
            /\ UNCHANGED detect_result
       ELSE /\ detect_result' = <<get_fallback_emotions>>
            /\ detect_pc' = "done"
            /\ UNCHANGED detect_exception
    /\ UNCHANGED <<response, content, parsed, NotDetector>>

\* except Exception: every other exception; the fallback is returned
ExceptException ==
    /\ detect_pc = "except"
    /\ detect_exception # "JSONDecodeError"
    /\ detect_result' = <<get_fallback_emotions>>
    /\ detect_pc' = "done"
    /\ UNCHANGED <<response, content, parsed, detect_exception, NotDetector>>

\* the call has ended: its frame is gone
FinishDetect ==
    /\ detect_pc \in {"done", "raised"}
    /\ detect_pc' = "idle"
    /\ response' = << >>
    /\ content' = << >>
    /\ parsed' = << >>
    /\ detect_exception' = "None"
    /\ detect_result' = << >>
    /\ UNCHANGED NotDetector

DetectNext ==
    \/ DetectEmotions
    \/ ModelChat
    \/ ExtractContent
    \/ JsonLoads
    \/ ValidateAndEnhance
    \/ ExceptJSONDecodeError
    \/ ExceptException
    \/ FinishDetect

DetectSpec == Init /\ [][DetectNext]_vars

----------------------------------------------------------------------------
(* Vocabulary of the properties *)

Concerns == {"high_frustration", "high_confusion", "low_engagement",
             "low_confidence", "optimal_state", "neutral_state"}
DistressConcerns == {"high_frustration", "high_confusion", "low_engagement",
                     "low_confidence"}
Urgencies == {"low", "medium", "high", "critical"}

\* the call has returned; rec is what it returned
Returned == pc = "done" /\ Len(result) = 1
rec == result[1]

\* the value a rule reads for a field: the field, or 5 when it is absent
Val(data, field) == Get(data, field, 5)

\* the call is inside analyze_intervention_need
Running == pc \in {"concern", "urgency", "phase", "generate", "timing", "return"}

----------------------------------------------------------------------------
(* C1: totality. No call raises or gets stuck, whatever fields of the score      *)
(* mapping are present, whatever their values and whatever the context; and the  *)
(* recommendation it returns has a primary_concern among the six concerns, an    *)
(* urgency_level among the four levels and an intervention_type among the five   *)
(* types, none of them None.                                                     *)
C1_Totality ==
    /\ pc # "raised"
    /\ exception = "None"
    /\ Running => ENABLED (IdentifyPrimaryConcern \/ CalculateInterventionUrgency
                           \/ GetLearningPhase \/ GenerateInterventions
                           \/ CalculateInterventionTiming \/ Return)
    /\ pc = "done" =>
        /\ Len(result) = 1
        /\ rec.primary_concern \in Concerns
        /\ rec.urgency_level \in Urgencies
        /\ rec.intervention_type \in InterventionType

\* a call returned for a mapping with graded fields missing, others out of range,
\* an ungraded field present, and a learning context given
C1_Witness ==
    /\ Returned
    /\ "frustration" \notin DOMAIN emotion_data
    /\ "confidence" \notin DOMAIN emotion_data
    /\ "engagement" \in DOMAIN emotion_data /\ emotion_data["engagement"] < 0
    /\ "confusion" \in DOMAIN emotion_data /\ emotion_data["confusion"] > 10
    /\ "overall_wellbeing" \in DOMAIN emotion_data
    /\ "excitement" \notin DOMAIN emotion_data
    /\ learning_context # NoContext

----------------------------------------------------------------------------
(* The four distress predicates, as the specification states them *)

Fires(data, concern) ==
    CASE concern = "high_frustration" -> Val(data, "frustration") > 7
      [] concern = "high_confusion" -> Val(data, "confusion") > 7
      [] concern = "low_engagement" -> Val(data, "engagement") < 4
      [] concern = "low_confidence" -> Val(data, "confidence") < 4

Weight(data, concern) ==
    CASE concern = "high_frustration" -> Val(data, "frustration")
      [] concern = "high_confusion" -> Val(data, "confusion")
      [] concern = "low_engagement" -> 10 - Val(data, "engagement")
      [] concern = "low_confidence" -> 10 - Val(data, "confidence")

\* position in the order frustration, confusion, engagement, confidence
Order(concern) ==
    CASE concern = "high_frustration" -> 1
      [] concern = "high_confusion" -> 2
      [] concern = "low_engagement" -> 3
      [] concern = "low_confidence" -> 4

AnyFires(data) == \E c \in DistressConcerns : Fires(data, c)

\* the concern of the call in progress has been identified
ConcernKnown == pc \in {"urgency", "phase", "generate", "timing", "return", "done"}
\* the urgency of the call in progress has been graded
UrgencyKnown == pc \in {"phase", "generate", "timing", "return", "done"}
\* _generate_interventions has returned
InterventionsKnown == pc \in {"timing", "return", "done"}
\* _calculate_intervention_timing has returned
TimingKnown == pc \in {"return", "done"}

----------------------------------------------------------------------------
(* C2: when some distress predicate fires, the identified concern is a fired     *)
(* predicate of the largest weight, and among the fired predicates of that       *)
(* weight it is the earliest in the order frustration, confusion, engagement,    *)
(* confidence.                                                                   *)
C2_MaxWeightConcern ==
    (ConcernKnown /\ AnyFires(emotion_data)) =>
        /\ primary_concern \in DistressConcerns
        /\ Fires(emotion_data, primary_concern)
        /\ \A c \in DistressConcerns :
             Fires(emotion_data, c) =>
                /\ Weight(emotion_data, c) <= Weight(emotion_data, primary_concern)
                /\ Weight(emotion_data, c) = Weight(emotion_data, primary_concern)
                     => Order(primary_concern) <= Order(c)

\* frustration = 8 and engagement = 2 tie at weight 8: high_frustration is returned
C2_Witness ==
    /\ Returned
    /\ DOMAIN emotion_data = {"frustration", "engagement"}
    /\ emotion_data["frustration"] = 8
    /\ emotion_data["engagement"] = 2
    /\ rec.primary_concern = "high_frustration"

(* C3: when no distress predicate fires the concern is optimal_state exactly     *)
(* when engagement > 7, confidence > 6 and frustration < 4, and neutral_state    *)
(* otherwise; while a distress predicate fires it is neither of the two.         *)
C3_OptimalOrNeutral ==
    ConcernKnown =>
        /\ ~AnyFires(emotion_data) =>
              primary_concern =
                 IF /\ Val(emotion_data, "engagement") > 7
                    /\ Val(emotion_data, "confidence") > 6
                    /\ Val(emotion_data, "frustration") < 4
                 THEN "optimal_state" ELSE "neutral_state"
        /\ AnyFires(emotion_data) =>
              primary_concern \notin {"optimal_state", "neutral_state"}

\* frustration 3, confusion 3, engagement 8, confidence 7: optimal_state at urgency low
C3_Witness ==
    /\ Returned
    /\ DOMAIN emotion_data = KeyFields
    /\ emotion_data["frustration"] = 3 /\ emotion_data["confusion"] = 3
    /\ emotion_data["engagement"] = 8 /\ emotion_data["confidence"] = 7
    /\ rec.primary_concern = "optimal_state"
    /\ rec.urgency_level = "low"

(* C4: the urgency is the first matching rung of the ladder over the raw scores: *)
(* critical iff frustration > 8 or confusion > 8 or engagement < 2; else high    *)
(* iff frustration > 6 or confusion > 6 or engagement < 4; else medium iff       *)
(* frustration > 4 or confusion > 5 or engagement < 6 or confidence < 5; else    *)
(* low. It is a function of the scores alone, and it is what the call reports.   *)
CriticalRung(data) ==
    \/ Val(data, "frustration") > 8
    \/ Val(data, "confusion") > 8
    \/ Val(data, "engagement") < 2
HighRung(data) ==
    \/ Val(data, "frustration") > 6
    \/ Val(data, "confusion") > 6
    \/ Val(data, "engagement") < 4
MediumRung(data) ==
    \/ Val(data, "frustration") > 4
    \/ Val(data, "confusion") > 5
    \/ Val(data, "engagement") < 6
    \/ Val(data, "confidence") < 5

C4_UrgencyLadder ==
    /\ UrgencyKnown =>
        /\ urgency = "critical" <=> CriticalRung(emotion_data)
        /\ urgency = "high" <=> ~CriticalRung(emotion_data) /\ HighRung(emotion_data)
        /\ urgency = "medium" <=>
              /\ ~CriticalRung(emotion_data) /\ ~HighRung(emotion_data)
              /\ MediumRung(emotion_data)
        /\ urgency = "low" <=>
              /\ ~CriticalRung(emotion_data) /\ ~HighRung(emotion_data)
              /\ ~MediumRung(emotion_data)
    /\ Returned => rec.urgency_level = urgency

\* a critical score (engagement < 2) that also passes the high and medium rungs,
\* graded critical while the concern selected is another field's (low_confidence)
C4_Witness ==
    /\ Returned
    /\ rec.urgency_level = "critical"
    /\ rec.primary_concern = "low_confidence"
    /\ Val(emotion_data, "engagement") = 1
    /\ Val(emotion_data, "frustration") = 5
    /\ Val(emotion_data, "confusion") = 6

----------------------------------------------------------------------------
\* the mapping `data` with the absent field `field` carried at the neutral value 5
WithNeutral(data, field) ==
    [k \in DOMAIN data \cup {field} |-> IF k = field THEN 5 ELSE data[k]]

(* C5: a mapping that omits a graded field gets the same concern, urgency and    *)
(* timing as the mapping that carries the field with value 5; the empty mapping  *)
(* gets concern neutral_state and urgency medium.                                *)
C5_MissingIsNeutral ==
    /\ \A field \in KeyFields \ DOMAIN emotion_data :
        /\ ConcernKnown =>
              primary_concern = identify_primary_concern(WithNeutral(emotion_data, field))
        /\ UrgencyKnown =>
              urgency = calculate_intervention_urgency(WithNeutral(emotion_data, field))
        /\ TimingKnown =>
              timing = calculate_intervention_timing(WithNeutral(emotion_data, field),
                                                     learning_context)
    /\ Returned =>
        /\ rec.primary_concern = primary_concern
        /\ rec.urgency_level = urgency
        /\ rec.timing = timing
        /\ DOMAIN emotion_data = {} =>
              rec.primary_concern = "neutral_state" /\ rec.urgency_level = "medium"

\* the call on the empty mapping has returned
C5_Witness ==
    /\ Returned
    /\ DOMAIN emotion_data = {}
    /\ rec.primary_concern = "neutral_state"
    /\ rec.urgency_level = "medium"
    /\ rec.timing.when = "at next natural break"

----------------------------------------------------------------------------
\* the order low < medium < high < critical
Rank(urg) ==
    CASE urg = "low" -> 1
      [] urg = "medium" -> 2
      [] urg = "high" -> 3
      [] urg = "critical" -> 4

\* the score vector with the four graded fields
Vector(f, c, e, k) ==
    [frustration |-> f, confusion |-> c, engagement |-> e, confidence |-> k]

\* the smallest and the largest threshold of the ladder, and the values from just
\* below the one to just above the other: every side of every threshold
LadderLow == 2
LadderHigh == 8
LadderVals == (LadderLow - 1) .. (LadderHigh + 1)

\* the field is not less distressed at value b than at value a
NotBetter(field, a, b) ==
    IF field \in {"frustration", "confusion"} THEN b >= a ELSE b <= a

(* C6: urgency is monotone in distress. Every score vector whose frustration and *)
(* confusion are at least, and whose engagement and confidence are at most,      *)
(* those of the vector just graded has an urgency that is not lower. Checked for *)
(* every pair of vectors over LadderVals, and over all score values for every    *)
(* pair that differs in one field, by any amount (any two ordered vectors are    *)
(* joined by four such pairs).                                                   *)
C6_UrgencyMonotone ==
    (pc = "phase" /\ DOMAIN emotion_data = KeyFields) =>
        /\ (\A field \in KeyFields : emotion_data[field] \in LadderVals) =>
              \A f \in emotion_data["frustration"] .. (LadderHigh + 1) :
              \A c \in emotion_data["confusion"] .. (LadderHigh + 1) :
              \A e \in (LadderLow - 1) .. emotion_data["engagement"] :
              \A k \in (LadderLow - 1) .. emotion_data["confidence"] :
                  Rank(calculate_intervention_urgency(Vector(f, c, e, k)))
                      >= Rank(urgency)
        /\ \A field \in KeyFields : \A v \in AllVals :
              NotBetter(field, emotion_data[field], v) =>
                  Rank(calculate_intervention_urgency(
                          [emotion_data EXCEPT ![field] = v])) >= Rank(urgency)

\* a vector graded medium, below one graded critical and above one graded low
C6_Witness ==
    /\ pc = "phase"
    /\ urgency = "medium"
    /\ emotion_data = Vector(5, 4, 7, 6)
    /\ calculate_intervention_urgency(Vector(9, 4, 7, 6)) = "critical"
    /\ calculate_intervention_urgency(Vector(4, 4, 7, 6)) = "low"

----------------------------------------------------------------------------
\* confusion, engagement and confidence are 5 or absent
OthersNeutral(data) ==
    \A k \in {"confusion", "engagement", "confidence"} : Val(data, k) = 5

(* C7: with confusion, engagement and confidence at 5 or absent, a frustration   *)
(* above 7 gives concern high_frustration, and every higher frustration gives    *)
(* the same concern.                                                             *)
C7_FrustrationMonotone ==
    ( /\ ConcernKnown
      /\ OthersNeutral(emotion_data)
      /\ "frustration" \in DOMAIN emotion_data
      /\ emotion_data["frustration"] > 7 ) =>
        /\ primary_concern = "high_frustration"
        /\ \A f \in AllVals :
             f >= emotion_data["frustration"] =>
                identify_primary_concern([emotion_data EXCEPT !["frustration"] = f])
                    = primary_concern

\* frustration 8, just past the threshold, with confusion carried at 5
C7_Witness ==
    /\ Returned
    /\ DOMAIN emotion_data = {"frustration", "confusion"}
    /\ emotion_data["frustration"] = 8
    /\ emotion_data["confusion"] = 5
    /\ rec.primary_concern = "high_frustration"

----------------------------------------------------------------------------
\* the concern of the call in progress has a catalog entry
InCatalog == primary_concern \in DOMAIN intervention_strategies

(* C8: neutral_state is the only concern without a catalog entry, and for it     *)
(* strategy selection returns the passive recommendation (supportive, the single *)
(* action "Continue monitoring student progress", the explanation "No specific   *)
(* intervention needed at this time") at every urgency and phase; a concern with *)
(* a catalog entry never gets that action list or that explanation.              *)
C8_PassiveForNeutral ==
    /\ DOMAIN intervention_strategies = Concerns \ {"neutral_state"}
    /\ InterventionsKnown =>
        /\ primary_concern = "neutral_state" =>
            /\ interventions.type = SUPPORTIVE
            /\ interventions.actions = <<"Continue monitoring student progress">>
            /\ interventions.explanation = "No specific intervention needed at this time"
        /\ primary_concern # "neutral_state" =>
            /\ InCatalog
            /\ interventions.actions # <<"Continue monitoring student progress">>
            /\ interventions.explanation # "No specific intervention needed at this time"
    /\ Returned =>
        /\ rec.intervention_type = interventions.type
        /\ rec.recommended_actions = interventions.actions
        /\ rec.explanation = interventions.explanation

\* the passive recommendation returned at urgency low in the assessment phase
C8_Witness ==
    /\ Returned
    /\ rec.primary_concern = "neutral_state"
    /\ rec.urgency_level = "low"
    /\ rec.learning_phase = ASSESSMENT
    /\ rec.intervention_type = SUPPORTIVE
    /\ rec.recommended_actions = <<"Continue monitoring student progress">>

----------------------------------------------------------------------------
\* the candidate types the specification gives for an urgency
ClaimedCandidates(urg) ==
    CASE urg = "critical" -> {"immediate"}
      [] urg = "high" -> {"immediate", "adaptive"}
      [] urg = "medium" -> {"adaptive", "supportive"}
      [] urg = "low" -> {"supportive"}

(* C9: for a concern with a catalog entry the candidate type is drawn from the   *)
(* set of the urgency (critical: immediate; high: immediate or adaptive; medium: *)
(* adaptive or supportive; low: supportive), every member of the set can be      *)
(* drawn, and a candidate that is a key of the concern's catalog is the reported *)
(* type; high_frustration at urgency critical reports immediate.                 *)
C9_CandidateByUrgency ==
    /\ (pc = "generate" /\ InCatalog) =>
          \A t \in ClaimedCandidates(urgency) :
              ENABLED (GenerateInterventions /\ candidate_type' = t)
    /\ (InterventionsKnown /\ InCatalog) =>
        /\ candidate_type \in ClaimedCandidates(urgency)
        /\ HasKey(intervention_strategies[primary_concern], candidate_type) =>
              interventions.type = candidate_type
        /\ (primary_concern = "high_frustration" /\ urgency = "critical") =>
              interventions.type = "immediate"
        /\ Returned => rec.intervention_type = interventions.type

\* high_frustration at urgency high, with the second member of the set drawn
C9_Witness ==
    /\ Returned
    /\ rec.primary_concern = "high_frustration"
    /\ rec.urgency_level = "high"
    /\ candidate_type = ADAPTIVE
    /\ rec.intervention_type = ADAPTIVE

----------------------------------------------------------------------------
\* the first type the catalog declares for the concerns that can fall back
FirstDeclared(concern) ==
    CASE concern = "high_confusion" -> "cognitive"
      [] concern = "low_engagement" -> "motivational"
      [] concern = "low_confidence" -> "motivational"
      [] concern = "optimal_state" -> "adaptive"

(* C10: when the candidate type is not a key of the concern's catalog the        *)
(* reported type is the first type declared for the concern (cognitive for       *)
(* high_confusion, motivational for low_engagement and low_confidence, adaptive  *)
(* for optimal_state); the reported type is always a key of the concern's        *)
(* catalog.                                                                      *)
C10_FallbackFirstDeclared ==
    (InterventionsKnown /\ InCatalog) =>
        /\ ~HasKey(intervention_strategies[primary_concern], candidate_type) =>
            /\ primary_concern \in {"high_confusion", "low_engagement",
                                    "low_confidence", "optimal_state"}
            /\ interventions.type = FirstDeclared(primary_concern)
        /\ HasKey(intervention_strategies[primary_concern], interventions.type)
        /\ Returned =>
            /\ rec.intervention_type = interventions.type
            /\ HasKey(intervention_strategies[rec.primary_concern], rec.intervention_type)

\* optimal_state at urgency high: the candidate immediate is no key, adaptive is reported
C10_Witness ==
    /\ Returned
    /\ rec.primary_concern = "optimal_state"
    /\ candidate_type = IMMEDIATE
    /\ rec.intervention_type = ADAPTIVE

----------------------------------------------------------------------------
\* the elements of a list
Elements(list) == { list[i] : i \in 1..Len(list) }

\* the action list the catalog holds for the concern and the type
CatalogActions(concern, type) == Lookup(intervention_strategies[concern], type)

\* the pairs of a concern and an urgency that the mappings of S are graded to
GradedPairs(S) ==
    { <<identify_primary_concern(d), calculate_intervention_urgency(d)>> : d \in S }

(* C11: recommended_actions has one or two entries and no entry twice; for a     *)
(* concern with a catalog entry every recommended action is in the catalog's     *)
(* list for the concern and the reported type; and before the strategy step,     *)
(* every ordered pair of distinct actions of the list of every type the step can *)
(* resolve is a possible result of the step. The calls checked are graded to     *)
(* every pair of a concern and an urgency that any mapping is graded to.         *)
C11_DistinctActions ==
    /\ InterventionsKnown =>
        /\ Len(interventions.actions) \in {1, 2}
        /\ \A i, j \in 1..Len(interventions.actions) :
              i # j => interventions.actions[i] # interventions.actions[j]
        /\ InCatalog =>
              Elements(interventions.actions)
                  \subseteq Elements(CatalogActions(primary_concern, interventions.type))
    /\ Returned =>
        /\ rec.recommended_actions = interventions.actions
        /\ rec.intervention_type = interventions.type
    /\ pc = "idle" =>
          GradedPairs(GradeVectors)
              = GradedPairs(CallScores \cup Mappings(KeyFields, ProbeVals))
    /\ (pc = "generate" /\ InCatalog) =>
          \A candidate \in CandidateTypes(urgency) :
              LET type == ResolveType(intervention_strategies[primary_concern], candidate)
              IN \A a, b \in Elements(CatalogActions(primary_concern, type)) :
                    a # b => ENABLED ( /\ GenerateInterventions
                                       /\ interventions'.type = type
                                       /\ interventions'.actions = <<a, b>> )

\* low_confidence at urgency medium returned the fourth and the first action of
\* its supportive list, in that order
C11_Witness ==
    /\ Returned
    /\ rec.primary_concern = "low_confidence"
    /\ rec.urgency_level = "medium"
    /\ rec.intervention_type = SUPPORTIVE
    /\ rec.recommended_actions =
          <<"Seek encouragement from mentors or study partners",
            "Practice positive self-talk and growth mindset">>

----------------------------------------------------------------------------
\* the mapping `data` with the field `field` carried at the value v
WithValue(data, field, v) ==
    [k \in DOMAIN data \cup {field} |-> IF k = field THEN v ELSE data[k]]

(* C12: the timing of a call is the row of the table for the urgency the call    *)
(* reports, whatever the concern; the rows of the four urgencies are pairwise    *)
(* different and the row of critical has when = "immediately"; and every mapping *)
(* that differs from the call's in one graded field and is graded to the same    *)
(* urgency, whatever its concern, gets the row that the call gets.               *)
C12_TimingByUrgency ==
    /\ pc = "idle" =>
        /\ \A u, v \in Urgencies : u # v => TimingMap(u) # TimingMap(v)
        /\ TimingMap("critical").when = "immediately"
    /\ pc = "phase" =>
          \A field \in KeyFields : \A v \in AllVals :
              calculate_intervention_urgency(WithValue(emotion_data, field, v)) = urgency
                  => calculate_intervention_timing(WithValue(emotion_data, field, v),
                                                   learning_context) = TimingMap(urgency)
    /\ TimingKnown => timing = TimingMap(urgency)
    /\ Returned =>
        /\ rec.timing = TimingMap(rec.urgency_level)
        /\ rec.urgency_level = "critical" => rec.timing.when = "immediately"

\* frustration 8 is high_frustration at urgency high; frustration 7 is
\* neutral_state at urgency high: the call returned the row both get
C12_Witness ==
    /\ Returned
    /\ emotion_data = Vector(8, 5, 5, 5)
    /\ rec.primary_concern = "high_frustration"
    /\ rec.urgency_level = "high"
    /\ identify_primary_concern(Vector(7, 5, 5, 5)) = "neutral_state"
    /\ calculate_intervention_urgency(Vector(7, 5, 5, 5)) = "high"
    /\ rec.timing = calculate_intervention_timing(Vector(7, 5, 5, 5), learning_context)
    /\ rec.timing.when = "within next 2-3 minutes"

----------------------------------------------------------------------------
\* the outcome the specification gives for an intervention type
ClaimedOutcome(type) ==
    [likelihood_of_success |->
        CASE type = "immediate" -> "80%"
          [] type = "motivational" -> "70%"
          [] type = "adaptive" -> "60%"
          [] type = "cognitive" -> "50%"
          [] type = "supportive" -> "40%"
          [] OTHER -> "50%",
     expected_timeframe |-> "5-15 minutes",
     confidence_level |->
        IF type \in {"immediate", "motivational", "adaptive"} THEN "moderate" ELSE "low"]

(* C13: the predicted outcome is a function of the intervention type alone:      *)
(* likelihood_of_success is "80%" for immediate, "70%" for motivational, "60%"   *)
(* for adaptive, "50%" for cognitive, "40%" for supportive and "50%" for any     *)
(* other type; confidence_level is "moderate" for immediate, motivational and    *)
(* adaptive and "low" otherwise; expected_timeframe is one constant. Every       *)
(* recommendation carries the outcome of the type it reports, whatever the       *)
(* scores, overall_wellbeing included.                                           *)
C13_OutcomeByType ==
    /\ pc = "idle" =>
          \A type \in InterventionType \cup {"unknown"} :
              /\ predict_intervention_outcome(emotion_data, [type |-> type])
                    = ClaimedOutcome(type)
              /\ ClaimedOutcome(type).confidence_level = "moderate"
                    <=> improvement_factor(type) > 50
    /\ Returned => rec.predicted_outcome = ClaimedOutcome(rec.intervention_type)

\* high_confusion fell back to cognitive, factor 0.5: "50%" and "low", with
\* overall_wellbeing given
C13_Witness ==
    /\ Returned
    /\ "overall_wellbeing" \in DOMAIN emotion_data
    /\ rec.intervention_type = COGNITIVE
    /\ rec.predicted_outcome.likelihood_of_success = "50%"
    /\ rec.predicted_outcome.confidence_level = "low"

----------------------------------------------------------------------------
\* how many times x occurs in the sequence
Count(seq, x) == Cardinality({ i \in 1..Len(seq) : seq[i] = x })

\* the positions of x in the sequence
Positions(seq, x) == { i \in 1..Len(seq) : seq[i] = x }

\* every occurrence of x in the sequence is before every occurrence of y
Before(seq, x, y) == \A i \in Positions(seq, x) : \A j \in Positions(seq, y) : i < j

(* C14: a call that has returned entered the steps in the order concern,         *)
(* urgency, strategy, timing, outcome, each of them once; in particular the      *)
(* urgency was graded once in the call, so the timing step used the value graded *)
(* before it and did not grade the raw scores again.                             *)
C14_UrgencyGradedOnce ==
    Returned =>
        /\ \A step \in {"_identify_primary_concern", "_calculate_intervention_urgency",
                         "_generate_interventions", "_calculate_intervention_timing",
                         "_predict_intervention_outcome"} : Count(call_log, step) = 1
        /\ Before(call_log, "_identify_primary_concern", "_calculate_intervention_urgency")
        /\ Before(call_log, "_calculate_intervention_urgency", "_generate_interventions")
        /\ Before(call_log, "_generate_interventions", "_calculate_intervention_timing")
        /\ Before(call_log, "_calculate_intervention_timing", "_predict_intervention_outcome")

----------------------------------------------------------------------------
(* C15: every returned recommendation is consistent: its predicted_outcome is    *)
(* the outcome of the intervention_type it reports (the type after the fallback, *)
(* not the candidate drawn before it); for a concern with a catalog entry its    *)
(* explanation is the concern's sentence with the reported type's name, which is *)
(* the sentence of no other type; its timing is the row of the urgency it        *)
(* reports.                                                                      *)
C15_Consistent ==
    /\ pc = "idle" =>
          \A concern \in DOMAIN intervention_strategies :
          \A t1, t2 \in InterventionType :
              t1 # t2 => generate_intervention_explanation(concern, t1, "high")
                            # generate_intervention_explanation(concern, t2, "high")
    /\ Returned =>
        /\ rec.predicted_outcome
              = predict_intervention_outcome(emotion_data, [type |-> rec.intervention_type])
        /\ rec.primary_concern \in DOMAIN intervention_strategies =>
              rec.explanation = generate_intervention_explanation(
                                    rec.primary_concern, rec.intervention_type,
                                    rec.urgency_level)
        /\ rec.timing = TimingMap(rec.urgency_level)

\* low_engagement with the candidate immediate, which it does not declare: the
\* recommendation reports motivational, explains motivational and predicts 70%
C15_Witness ==
    /\ Returned
    /\ rec.primary_concern = "low_engagement"
    /\ candidate_type = IMMEDIATE
    /\ rec.intervention_type = MOTIVATIONAL
    /\ rec.explanation = "Engagement levels below optimal range. Motivational"
                          \o " strategies will help re-energize learning process."
    /\ rec.predicted_outcome.likelihood_of_success = "70%"
    /\ rec.predicted_outcome # ClaimedOutcome(candidate_type)

----------------------------------------------------------------------------
(* C16: the engine is stateless across calls. In every state reached by any      *)
(* sequence of calls the strategy catalog and the phase-modifier table are what  *)
(* the constructor built; between two calls nothing of a call is left; and from  *)
(* the entry of a call to its return the score mapping and the learning context  *)
(* passed by the caller do not change.                                           *)
C16_Stateless ==
    /\ [](intervention_strategies = StrategyCatalog /\ phase_modifiers = PhaseModifiers)
    /\ [](pc = "idle" => CurrentFrame = IdleFrame)
    /\ [][(pc # "idle" /\ pc' # "idle") =>
             UNCHANGED <<emotion_data, score_types, learning_context>>]_vars

\* a call on a catalog concern has returned after earlier calls, one of them on
\* the same mapping, and the tables are as constructed
C16_Witness ==
    /\ Returned
    /\ emotion_data = [engagement |-> 3]
    /\ rec.primary_concern \in DOMAIN intervention_strategies
    /\ Cardinality(history) >= 3
    /\ \E h \in history : h.emotion_data = emotion_data
    /\ intervention_strategies = StrategyCatalog
    /\ phase_modifiers = PhaseModifiers

----------------------------------------------------------------------------
(* C20: a call returns the primary_concern, urgency_level and timing that every  *)
(* earlier call on the same score mapping returned, whatever calls came between, *)
(* and the predicted_outcome that every earlier call that reported the same      *)
(* intervention type returned, on whatever mapping.                              *)
C20_Repeatable ==
    Returned =>
        \A h \in history :
            /\ h.emotion_data = emotion_data =>
                /\ h.primary_concern = rec.primary_concern
                /\ h.urgency_level = rec.urgency_level
                /\ h.timing = rec.timing
            /\ h.intervention_type = rec.intervention_type =>
                  h.predicted_outcome = rec.predicted_outcome

\* the mapping was called before and the draw was another type then; another
\* mapping, of another concern and urgency, reported the type reported now
C20_Witness ==
    /\ Returned
    /\ emotion_data = [engagement |-> 3]
    /\ rec.intervention_type = ADAPTIVE
    /\ \E h \in history :
          h.emotion_data = emotion_data /\ h.intervention_type = MOTIVATIONAL
    /\ \E h \in history :
          /\ h.emotion_data = [confidence |-> 3]
          /\ h.urgency_level # rec.urgency_level
          /\ h.intervention_type = ADAPTIVE

----------------------------------------------------------------------------
\* r is a dict that _generate_interventions can return for the concern and urgency
CanGenerate(r, concern, urg) ==
    IF concern \notin DOMAIN StrategyCatalog
    THEN r = PassiveInterventions
    ELSE \E candidate \in CandidateTypes(urg) :
            LET resolved == ResolveType(StrategyCatalog[concern], candidate)
                actions == Lookup(StrategyCatalog[concern], resolved)
            IN /\ r.type = resolved
               /\ \E i, j \in 1..Len(actions) :
                     i # j /\ r.actions = <<actions[i], actions[j]>>
               /\ r.explanation = generate_intervention_explanation(concern, resolved, urg)
               /\ r.success_indicators = define_success_indicators(concern)

\* r is a recommendation that analyze_intervention_need(data, context) can return
\* when no other call runs: the statements of its body, one after the other
RunAlone(r, data, context) ==
    /\ r.primary_concern = identify_primary_concern(data)
    /\ r.urgency_level = calculate_intervention_urgency(data)
    /\ r.learning_phase = phase_of(context)
    /\ CanGenerate([type |-> r.intervention_type,
                    actions |-> r.recommended_actions,
                    explanation |-> r.explanation,
                    success_indicators |-> r.success_indicators],
                   r.primary_concern, r.urgency_level)
    /\ r.timing = calculate_intervention_timing(data, context)
    /\ r.predicted_outcome
          = predict_intervention_outcome(data, [type |-> r.intervention_type])
    /\ DOMAIN r = {"primary_concern", "urgency_level", "intervention_type",
                   "recommended_actions", "timing", "explanation",
                   "success_indicators", "learning_phase", "predicted_outcome"}

\* the frame holds only what its own call computed from its own arguments
OwnValues(f) ==
    /\ f.pc \in {"urgency", "phase", "generate", "timing", "return", "done"} =>
          f.primary_concern = identify_primary_concern(f.emotion_data)
    /\ f.pc \in {"phase", "generate", "timing", "return", "done"} =>
          f.urgency = calculate_intervention_urgency(f.emotion_data)
    /\ f.pc \in {"return", "done"} =>
          f.timing = calculate_intervention_timing(f.emotion_data, f.learning_context)
    /\ f.pc = "done" =>
          /\ Len(f.result) = 1
          /\ f.result[1].primary_concern = f.primary_concern
          /\ f.result[1].urgency_level = f.urgency
          /\ f.result[1].timing = f.timing
    /\ f.pc # "raised"

(* C17: when the calls of several threads on one engine are interleaved          *)
(* statement by statement in any way, every call, running or suspended, holds    *)
(* only values computed from its own score mapping, every call returns a         *)
(* recommendation that the call run alone on its mapping can return, and the two *)
(* tables of the engine stay as constructed.                                     *)
C17_ConcurrentSafe ==
    /\ intervention_strategies = StrategyCatalog
    /\ phase_modifiers = PhaseModifiers
    /\ OwnValues(CurrentFrame)
    /\ \A f \in BagToSet(suspended) : OwnValues(f)
    /\ Returned => RunAlone(rec, emotion_data, learning_context)

\* a call on frustration 9 has run from entry to return while a call on
\* engagement 3 of another thread waits between its strategy and timing steps
C17_Witness ==
    /\ Returned
    /\ emotion_data = [frustration |-> 9]
    /\ rec.urgency_level = "critical"
    /\ \E f \in BagToSet(suspended) :
          /\ f.pc = "timing"
          /\ f.emotion_data = [engagement |-> 3]
          /\ f.urgency = "high"
          /\ f.interventions.type = MOTIVATIONAL

----------------------------------------------------------------------------
\* some value of the score mapping is not a number
InvalidType == \E k \in DOMAIN score_types : score_types[k] \notin NumberTypes

(* C18: a call whose score mapping holds a value that is not a number (a string, *)
(* a boolean, None) in any field computes no concern and no urgency and returns  *)
(* no recommendation; it ends with the error "invalid score type".               *)
C18_InvalidTypeRejected ==
    InvalidType =>
        /\ primary_concern = "None"
        /\ urgency = "None"
        /\ result = << >>
        /\ pc \in {"concern", "raised"}
        /\ pc = "raised" => exception = "invalid score type"

----------------------------------------------------------------------------
\* contexts that carry another key, without and with a phase
OtherContexts ==
    { <<[topic |-> "fractions"]>>, <<[topic |-> "fractions", phase |-> REVIEW]>> }

\* the phase the specification gives for a context
ClaimedPhase(context) ==
    IF context = NoContext THEN "practice"
    ELSE IF "phase" \in DOMAIN context[1] THEN context[1]["phase"]
    ELSE "practice"

----------------------------------------------------------------------------
\* the two-item list of a catalog concern without a list of its own, and the
\* two-item list of the passive recommendation
GenericIndicators == <<"Improved overall emotional state", "Better learning engagement">>
PassiveIndicators == <<"Maintained engagement", "Steady progress">>

(* C21: success_indicators is a fixed list chosen by the concern alone. For      *)
(* high_frustration, high_confusion, low_engagement and low_confidence it is the *)
(* concern's own list, which has three entries and is the list of no other       *)
(* concern; for a concern without a list of its own it is a fixed two-item list  *)
(* (one for optimal_state, one for neutral_state); so it has 2 or 3 entries in   *)
(* every recommendation, at every urgency, for every reported type and every     *)
(* outcome of the draws.                                                         *)
C21_IndicatorsByConcern ==
    /\ pc = "idle" =>
          \A c \in DistressConcerns :
              /\ Len(define_success_indicators(c)) = 3
              /\ \A d \in Concerns \ {c} :
                    define_success_indicators(d) # define_success_indicators(c)
    /\ InterventionsKnown =>
        /\ Len(interventions.success_indicators) \in {2, 3}
        /\ primary_concern \in DistressConcerns =>
              interventions.success_indicators = define_success_indicators(primary_concern)
        /\ primary_concern = "optimal_state" =>
              interventions.success_indicators = GenericIndicators
        /\ primary_concern = "neutral_state" =>
              interventions.success_indicators = PassiveIndicators
    /\ Returned => rec.success_indicators = interventions.success_indicators

\* optimal_state, a catalog concern without a list of its own, returned the
\* generic list at urgency medium with the type drawn
C21_Witness ==
    /\ Returned
    /\ rec.primary_concern = "optimal_state"
    /\ rec.urgency_level = "medium"
    /\ rec.intervention_type = SUPPORTIVE
    /\ rec.success_indicators = GenericIndicators
    /\ Len(rec.success_indicators) = 2

----------------------------------------------------------------------------
(* C22: the draws of strategy selection come from the source the caller injects, *)
(* so a call returns the intervention type and the actions that the call before  *)
(* it returned whenever the two calls have the same concern, urgency and phase   *)
(* and the caller held the same sequence of draws for both.                      *)
C22_InjectedDraws ==
    Returned =>
        \A h \in history :
            ( /\ h.random_source = random_source
              /\ h.primary_concern = rec.primary_concern
              /\ h.urgency_level = rec.urgency_level
              /\ h.learning_phase = rec.learning_phase ) =>
                /\ h.intervention_type = rec.intervention_type
                /\ h.recommended_actions = rec.recommended_actions

----------------------------------------------------------------------------
\* the session has been initialised; emotion_history is its history
Initialised == "emotion_history" \in DOMAIN session_state
emotion_history == session_state["emotion_history"]

(* C23: after initialize_emotion_session and n calls of add_emotion_reading the  *)
(* history has min(n, 20) entries and they are the last min(n, 20) readings      *)
(* added, in the order they were added; and a step that adds no reading, a later *)
(* initialize_emotion_session among them, leaves an existing history as it is.   *)
C23_BoundedHistory ==
    /\ [](Initialised =>
            LET n == Len(readings_added)
                kept == Min(n, HistoryLimit)
            IN /\ Len(emotion_history) = kept
               /\ \A i \in 1..kept : emotion_history[i] = readings_added[n - kept + i])
    /\ [][(Initialised /\ readings_added' = readings_added) =>
             /\ "emotion_history" \in DOMAIN session_state'
             /\ session_state'["emotion_history"] = emotion_history]_vars

\* 22 readings were added: the history holds the 3rd to the 22nd, the first two
\* are gone, and a distressed reading is among those kept
C23_Witness ==
    /\ Initialised
    /\ Len(readings_added) = 22
    /\ Len(emotion_history) = 20
    /\ emotion_history[1] = readings_added[3]
    /\ emotion_history[1]["timestamp"] = 3
    /\ emotion_history[20] = readings_added[22]
    /\ \E i \in 1..20 : emotion_history[i]["frustration"] = 9

----------------------------------------------------------------------------
\* what the specification says of the fallback reading
IsClaimedFallback(reading) ==
    /\ \A k \in {"frustration", "confusion", "engagement", "excitement",
                 "confidence", "learning_readiness"} : reading[k] = 5
    /\ reading["intervention_needed"] = 0
    /\ reading["intervention_priority"] = "low"

(* C24: detect_emotions never raises. When the model call fails, when the reply  *)
(* is not valid JSON or when validating the parsed reply fails, it returns the   *)
(* fallback reading (the six scores 5.0, intervention_needed false,              *)
(* intervention_priority low); when every step succeeds the reading returned     *)
(* carries every required field, with the default for each field the model       *)
(* omitted.                                                                      *)
C24_NeverRaises ==
    /\ detect_pc # "raised"
    /\ detect_pc = "done" =>
        /\ Len(detect_result) = 1
        /\ detect_exception # "None" => IsClaimedFallback(detect_result[1])
        /\ detect_exception = "None" =>
            /\ DOMAIN RequiredDefaults \subseteq DOMAIN detect_result[1]
            /\ \A k \in DOMAIN RequiredDefaults \ DOMAIN content[1].value.data :
                  \/ detect_result[1][k] = RequiredDefaults[k]
                  \/ k = "intervention_needed"
                        /\ detect_result[1]["intervention_priority"] = "high"

----------------------------------------------------------------------------
(* C25: the urgency of a distress concern has a lower bound. When the concern is *)
(* high_frustration, high_confusion or low_engagement the urgency is high or     *)
(* critical; when it is low_confidence the urgency is medium, high or critical;  *)
(* so the urgency low occurs only with optimal_state or neutral_state.           *)
C25_UrgencyLowerBound ==
    /\ UrgencyKnown =>
        /\ primary_concern \in {"high_frustration", "high_confusion", "low_engagement"}
              => urgency \in {"high", "critical"}
        /\ primary_concern = "low_confidence"
              => urgency \in {"medium", "high", "critical"}
        /\ urgency = "low" => primary_concern \in {"optimal_state", "neutral_state"}
    /\ Returned =>
        /\ rec.primary_concern = primary_concern
        /\ rec.urgency_level = urgency

\* the bound is attained: low_confidence (confidence 3) returned at urgency medium
C25_Witness ==
    /\ Returned
    /\ rec.primary_concern = "low_confidence"
    /\ rec.urgency_level = "medium"
    /\ Val(emotion_data, "confidence") = 3
    /\ Val(emotion_data, "engagement") = 6

(* C26: the urgency critical implies a distress concern: a recommendation at     *)
(* urgency critical has concern high_frustration, high_confusion, low_engagement *)
(* or low_confidence; so a recommendation whose timing says "immediately" is     *)
(* neither for optimal_state nor the passive recommendation of neutral_state.    *)
C26_CriticalIsDistress ==
    /\ (UrgencyKnown /\ urgency = "critical") => primary_concern \in DistressConcerns
    /\ Returned =>
        /\ rec.urgency_level = "critical" => rec.primary_concern \in DistressConcerns
        /\ rec.timing.when = "immediately" =>
            /\ rec.primary_concern \notin {"optimal_state", "neutral_state"}
            /\ rec.explanation # "No specific intervention needed at this time"
            /\ rec.recommended_actions # <<"Continue monitoring student progress">>

\* confusion 9 is critical and is the concern high_confusion, to act on immediately
C26_Witness ==
    /\ Returned
    /\ Val(emotion_data, "confusion") = 9
    /\ Val(emotion_data, "frustration") = 5
    /\ rec.urgency_level = "critical"
    /\ rec.primary_concern = "high_confusion"
    /\ rec.timing.when = "immediately"

(* C27: the supportive entries of three concerns are never selected. A           *)
(* recommendation for high_frustration, high_confusion or low_engagement never   *)
(* reports the type supportive, for any input and any draw, and none of its      *)
(* actions is one of the supportive actions the catalog lists for the concern.   *)
C27_SupportiveUnreachable ==
    (InterventionsKnown
       /\ primary_concern \in {"high_frustration", "high_confusion", "low_engagement"}) =>
        /\ HasKey(intervention_strategies[primary_concern], SUPPORTIVE)
        /\ interventions.type # SUPPORTIVE
        /\ Elements(interventions.actions)
              \cap Elements(CatalogActions(primary_concern, SUPPORTIVE)) = {}
        /\ Returned =>
            /\ rec.intervention_type = interventions.type
            /\ rec.recommended_actions = interventions.actions

\* low_engagement at urgency high with adaptive drawn: the catalog lists
\* supportive actions for the concern, adaptive ones are returned
C27_Witness ==
    /\ Returned
    /\ rec.primary_concern = "low_engagement"
    /\ rec.urgency_level = "high"
    /\ rec.intervention_type = ADAPTIVE
    /\ HasKey(intervention_strategies["low_engagement"], SUPPORTIVE)
    /\ Elements(rec.recommended_actions)
          \subseteq Elements(CatalogActions("low_engagement", ADAPTIVE))

----------------------------------------------------------------------------
\* the part of the mapping that the rules name
GradedPart(data) == [k \in DOMAIN data \cap KeyFields |-> data[k]]

\* the mapping a with the fields of b added
Merge(a, b) ==
    [k \in DOMAIN a \cup DOMAIN b |-> IF k \in DOMAIN b THEN b[k] ELSE a[k]]

\* the values of the fields that the rules do not name: the three of the
\* detector's reading and one more
UngradedParts == Mappings(OtherFields \cup {"emotional_state"}, ProbeVals)

(* C28: the recommendation is independent of the fields the rules do not name.   *)
(* Every mapping that has the frustration, confusion, engagement and confidence  *)
(* of the call's mapping and any other values of excitement, learning_readiness, *)
(* overall_wellbeing or another field, these absent included, is graded to the   *)
(* concern and the urgency of the call and gets its timing and, for every type,  *)
(* its predicted outcome; the call reports these values, and what it returns as  *)
(* a whole (success indicators, type and actions included) can be returned for   *)
(* the mapping without the other fields.                                         *)
C28_UngradedIgnored ==
    /\ pc = "phase" =>
          \A other \in UngradedParts :
              LET data == Merge(GradedPart(emotion_data), other)
              IN /\ identify_primary_concern(data) = primary_concern
                 /\ calculate_intervention_urgency(data) = urgency
                 /\ calculate_intervention_timing(data, learning_context)
                       = calculate_intervention_timing(emotion_data, learning_context)
                 /\ \A type \in InterventionType :
                       predict_intervention_outcome(data, [type |-> type])
                          = predict_intervention_outcome(emotion_data, [type |-> type])
    /\ Returned =>
        /\ rec.primary_concern = primary_concern
        /\ rec.urgency_level = urgency
        /\ rec.timing = calculate_intervention_timing(emotion_data, learning_context)
        /\ rec.predicted_outcome
              = predict_intervention_outcome(emotion_data, [type |-> rec.intervention_type])
        /\ RunAlone(rec, GradedPart(emotion_data), learning_context)

\* a call whose mapping carries excitement and overall_wellbeing returned what
\* the call on the graded part alone returns, and what a mapping with another
\* overall_wellbeing returns
C28_Witness ==
    /\ Returned
    /\ {"excitement", "overall_wellbeing"} \subseteq DOMAIN emotion_data
    /\ "learning_readiness" \notin DOMAIN emotion_data
    /\ emotion_data["overall_wellbeing"] = Highest
    /\ rec.primary_concern = "high_frustration"
    /\ GradedPart(emotion_data) # emotion_data
    /\ RunAlone(rec, GradedPart(emotion_data), learning_context)
    /\ RunAlone(rec, Merge(GradedPart(emotion_data), [overall_wellbeing |-> Lowest]),
                learning_context)

----------------------------------------------------------------------------
(* C29: a returned recommendation shares no mutable structure with the engine.   *)
(* No part of it is an object of the engine; after the caller has changed the    *)
(* actions, the success indicators or the timing of a recommendation it got, the *)
(* two tables of the engine are as constructed, and every later call returns     *)
(* what the call alone on the engine as constructed can return.                  *)
C29_NoSharedStructure ==
    /\ aliased = {}
    /\ intervention_strategies = StrategyCatalog
    /\ phase_modifiers = PhaseModifiers
    /\ (Returned /\ history # {}) => RunAlone(rec, emotion_data, learning_context)

\* the caller emptied the actions of a recommendation for low_confidence; a later
\* call for low_confidence with the same type returned two actions of the list
C29_Witness ==
    /\ Returned
    /\ rec.primary_concern = "low_confidence"
    /\ Len(rec.recommended_actions) = 2
    /\ Len(rec.success_indicators) = 3
    /\ \E h \in history :
          /\ h.part = "recommended_actions"
          /\ h.recommendation.recommended_actions = << >>
          /\ h.recommendation.primary_concern = "low_confidence"
          /\ h.recommendation.intervention_type = rec.intervention_type

====
